---- MODULE Spec2Model ----
(***************************************************************************)
(* Model of the reconciliation / staging engine of monitoring-automation   *)
(* (src/nagiosql_adapter.py, class NagiosQLAdapter).                       *)
(*                                                                         *)
(* One adapter object runs import_configurations sessions one after the    *)
(* other against one remote host.  The remote host runs the commands sent  *)
(* with ssh.exec_command on their own channels: the adapter never waits    *)
(* for their exit status, so they complete at any later moment (action     *)
(* RemoteExec).  SFTP writes are synchronous.                              *)
(*                                                                         *)
(* The module uses os.path in _validate_nagios_syntax, _check_idempotency  *)
(* and _stage_files_for_import but never imports os at module level.       *)
(* os_bound = FALSE is the module as shipped: each of the three methods    *)
(* ends in a caught NameError.  os_bound = TRUE is the same code running   *)
(* with the name supplied in the module namespace, which is the only way   *)
(* the code after those lines runs at all.                                 *)
(*                                                                         *)
(* SpecApi models _import_objects_via_api, the API upsert mode, on its own.*)
(*                                                                         *)
(* SpecRegistry models the check registry (src/plugins/check_manager.py,   *)
(* class CheckManager, and the check plugins of src/plugins/checks): the   *)
(* built-in table, the dynamic loading of plugin modules in any discovery  *)
(* order, and get_nagios_command on a set of dependency records.           *)
(*                                                                         *)
(* SpecCompile models the compiler (src/nagios_generator.py, class         *)
(* NagiosConfigGenerator): generate_all_configs on a bounded family of     *)
(* topologies, one action per generate_*_config call.  Strings whose       *)
(* characters the code inspects are sequences of one-character strings.    *)
(* The text of the five files is a sequence of lines; a directive line is  *)
(* its key, its separator and its value.                                   *)
(*                                                                         *)
(* SpecRecompile runs the compiler twice on one topology, at two moments   *)
(* of the wall clock.  SpecParse hands the compiled text to                *)
(* _parse_nagios_config_blocks of the adapter.  SpecAutomator models       *)
(* generate_monitoring_configs (src/monitoring_automator.py) around the    *)
(* compiler.  SpecDeploy models the Nagios path of deploy_all              *)
(* (src/deployment.py): the log of what is sent over the SSH connection.   *)
(***************************************************************************)
EXTENDS Integers, Sequences, FiniteSets, TLC

\* ---------------------------------------------------------------- bounds
MaxSessions == 2      \* import_configurations calls in one behaviour
MaxFiles == 2         \* artifacts in one config_files dictionary
MaxElapsed == 2       \* clock ticks that pass between two calls
MaxFaults == 1        \* transport, timeout and internal errors in one behaviour
TicksPerSecond == 2   \* resolution of the modelled wall clock

Names == {"hosts.cfg", "services.cfg"}
Contents == {"v1", "v2"}
Absent == "absent"
Unset == "unset"
Recipients == {"ops"}

\* ------------------------------------------------------- pure functions
\* hashlib.md5(content.encode()).hexdigest() and the remote md5sum: the same
\* digest function on both sides, collision free on the modelled contents.
MD5(c) == IF c = "v1" THEN "d41d" ELSE IF c = "v2" THEN "9e10" ELSE ""

\* f"nagiosql_import_{datetime.now().strftime('%Y%m%d_%H%M%S')}": a fixed
\* prefix and the clock truncated to seconds.
SessionId(t) == <<"nagiosql_import", t \div TicksPerSecond>>

MaxClock == (MaxSessions - 1) * MaxElapsed
Ids == {SessionId(t) : t \in 0 .. MaxClock}

\* self.import_session_id = None
None == <<>>

RECURSIVE SeqNames(_)
SeqNames(s) == IF s = <<>> THEN {} ELSE {s[1].filename} \cup SeqNames(Tail(s))

\* The config_files dictionaries a caller passes: keys distinct, in the order
\* in which the generator emits the artifacts (hosts.cfg before services.cfg).
NameOrder == <<"hosts.cfg", "services.cfg">>
Position(n) == CHOOSE i \in 1 .. Len(NameOrder) : NameOrder[i] = n
FileEntry == [filename : Names, content : Contents]
ConfigFiles ==
    {s \in UNION {[1 .. n -> FileEntry] : n \in 1 .. MaxFiles} :
        \A i, j \in 1 .. Len(s) :
            i < j => Position(s[i].filename) < Position(s[j].filename)}

\* A remote directory: whether it exists and what each name in it holds.
NoDir == [exists |-> FALSE, files |-> [n \in Names |-> Absent]]
EmptyDir == [exists |-> TRUE, files |-> [n \in Names |-> Absent]]

VARIABLES
    os_bound,            \* does the global name `os` resolve in the module
    nagios_installed,    \* is the `nagios` binary on the controlling host
    faults,              \* errors injected so far
    cfg,                 \* create_backups, validate_syntax, notifications_enabled, notification_recipients
    clock,               \* wall clock of the controlling host, in ticks
    import_session_id,   \* self.import_session_id
    staged_files,        \* self.staged_files
    validation_results,  \* self.validation_results
    pc,                  \* position inside import_configurations
    config_files,        \* argument of the running call
    idx,                 \* loop position of the copy loop
    check,               \* outcome of _check_idempotency in this call
    ret,                 \* last value returned by a public method
    import_dir,          \* remote import_directory: name -> content
    session_dirs,        \* remote import_directory/<session id>
    backup_dirs,         \* remote backup_directory/<session id>
    pending,             \* exec_command requests not yet completed remotely
    instructions,        \* local instruction files written, by session id
    notified,            \* recipients notified, with the session id
    nsessions,           \* calls started so far
    hist,                \* history of the running call: what it found and did
    api,                 \* API upsert mode: adapter fields, call log, remote collection
    registry,            \* plugins/check_manager.py: the CheckManager being built and its last call
    compiler,            \* nagios_generator.py: the topology and what generate_all_configs produced
    deploy               \* deployment.py: one run of main / deploy_all and the remote operations it made

vars == <<os_bound, nagios_installed, faults, cfg, clock, import_session_id, staged_files,
          validation_results, pc, config_files, idx, check, ret, import_dir,
          session_dirs, backup_dirs, pending, instructions, notified,
          nsessions, hist, api, registry, compiler, deploy>>


\* ------------------------------------------------ adapter configuration
\* __init__: the three switches default to True, the recipient list to [].
\* The model runs the default configuration and the ones with one switch off.
Configs ==
    {c \in [create_backups : BOOLEAN, validate_syntax : BOOLEAN,
            notifications_enabled : BOOLEAN, notification_recipients : {Recipients}] :
        Cardinality({k \in {"create_backups", "validate_syntax", "notifications_enabled"} :
                        ~c[k]}) <= 1}

NoResults ==
    [syntax_check |-> Unset, idempotency_conflicts |-> Unset,
     idempotency_check |-> Unset]

NoCheck == [ran |-> FALSE, completed |-> FALSE, conflicts |-> <<>>]

NewHist(dir) ==
    [pre |-> dir, wrote |-> {}, issued |-> FALSE, ran |-> {},
     transport_failed |-> FALSE, dirty_at_failure |-> FALSE, syntax |-> "none",
     steps |-> <<>>]

\* ------------------------------------------------------- API upsert mode
MaxObjects == 2       \* objects in one _import_objects_via_api call

ObjectNames == {"web01", "db01"}
ObjectData == {"a", "b"}

\* _calculate_checksum (lines 660-667): the MD5 of the JSON of every field
\* whose key does not start with an underscore; collision free here.
CalculateChecksum(name, data) == <<"md5", name, data>>

\* The objects the _process_* methods build: with a _checksum field when
\* use_checksums is set (lines 465-466), without it otherwise.
ObjectsFor(use_checksums) ==
    {[name |-> n, data |-> d,
      checksum |-> IF use_checksums THEN CalculateChecksum(n, d) ELSE <<>>] :
        n \in ObjectNames, d \in ObjectData}

ObjectLists(use_checksums) ==
    UNION {[1 .. k -> ObjectsFor(use_checksums)] : k \in 1 .. MaxObjects}

\* The remote collection: stored objects with the id the server gave them.
Stored(id, o) == [id |-> id, name |-> o.name, data |-> o.data, checksum |-> o.checksum]

InitialCollections ==
    {{}} \cup {{Stored(1, o)} : o \in ObjectsFor(TRUE)}

NoApi ==
    [bound |-> FALSE, update_existing |-> FALSE, use_checksums |-> FALSE,
     objects |-> <<>>, i |-> 0, pc |-> "off", success |-> TRUE,
     calls |-> <<>>, remote |-> {}]

\* The staging engine uses neither the check registry nor the compiler.
NoRegistry == [pc |-> "unused"]
NoCompiler == [pc |-> "unused"]
NoDeploy == [pc |-> "unused"]

\* The remote target before the first session: it already holds hosts.cfg and
\* does not hold services.cfg.
InitialImportDir == [n \in Names |-> IF n = "hosts.cfg" THEN "v1" ELSE Absent]

\* State after NagiosQLAdapter(config); no session or backup directory exists
\* on the remote host yet.
Init ==
    /\ os_bound \in BOOLEAN
    /\ nagios_installed \in BOOLEAN
    /\ faults = 0
    /\ cfg \in Configs
    /\ clock = 0
    /\ import_session_id = None
    /\ staged_files = <<>>
    /\ validation_results = NoResults
    /\ pc = "idle"
    /\ config_files = <<>>
    /\ idx = 0
    /\ check = NoCheck
    /\ ret = [op |-> "none", value |-> FALSE]
    /\ import_dir = InitialImportDir
    /\ session_dirs = [i \in Ids |-> NoDir]
    /\ backup_dirs = [i \in Ids |-> NoDir]
    /\ pending = {}
    /\ instructions = {}
    /\ notified = {}
    /\ nsessions = 0
    /\ hist = NewHist(import_dir)
    /\ api = NoApi
    /\ registry = NoRegistry
    /\ compiler = NoCompiler
    /\ deploy = NoDeploy

\* ------------------------------------------------------- small helpers
Step(name) == [hist EXCEPT !.steps = Append(@, name)]

\* return False out of import_configurations
ReturnFalse ==
    /\ pc' = "idle"
    /\ ret' = [op |-> "import_configurations", value |-> FALSE]

Remote == <<import_dir, session_dirs, backup_dirs>>
Local == <<instructions, notified>>
Fixed == <<os_bound, nagios_installed, cfg, api, registry, compiler, deploy>>

\* The outcomes of a step: the regular ones, and the errors while the budget
\* of injected errors lasts.
Outcomes(regular, errors) ==
    regular \cup (IF faults < MaxFaults THEN errors ELSE {})

Inject(o, errors) == faults' = IF o \in errors THEN faults + 1 ELSE faults

\* ------------------------------------------- import_configurations: entry
\* Lines 90-91: the session id is the wall clock, formatted to the second.
\* dt is the time since the previous call; the clock starts with the first.
Begin(files, dt) ==
    /\ pc = "idle"
    /\ nsessions < MaxSessions
    /\ nsessions = 0 => dt = 0
    /\ pending = {}
    /\ clock' = clock + dt
    /\ import_session_id' = SessionId(clock')
    /\ config_files' = files
    /\ pc' = "validate"
    /\ idx' = 0
    /\ check' = NoCheck
    /\ ret' = [op |-> "none", value |-> FALSE]
    /\ nsessions' = nsessions + 1
    /\ hist' = NewHist(import_dir)
    /\ UNCHANGED <<Fixed, faults, staged_files, validation_results, Remote, pending,
                   Local>>

\* ------------------------------------------------ _validate_nagios_syntax
\* What the body of the try block can do.  Without `os` the first
\* os.path.join raises NameError, which the last except clause catches.
SyntaxErrors == {"timeout", "error"}

SyntaxOutcomes ==
    IF ~os_bound THEN {"name_error"}
    ELSE IF ~nagios_installed THEN Outcomes({"not_found"}, {"error"})
    ELSE Outcomes({"rc0", "rc_nonzero"}, SyntaxErrors)

\* The value _validate_nagios_syntax returns for each outcome.
SyntaxReturn(o) == o \in {"rc0", "not_found"}

SyntaxResults(o) ==
    IF o = "rc0" THEN [validation_results EXCEPT !.syntax_check = "PASSED"]
    ELSE IF o = "rc_nonzero" THEN [validation_results EXCEPT !.syntax_check = "FAILED"]
    ELSE validation_results

ValidationAbortsOnExitCodeOnly(o) == cfg.validate_syntax /\ o = "rc_nonzero"

\* Lines 95-97: `if self.validate_syntax and not self._validate_nagios_syntax(..)`
ValidationAborts(o) == cfg.validate_syntax /\ ~SyntaxReturn(o)

Validate ==
    /\ pc = "validate"
    /\ \E o \in SyntaxOutcomes :
        /\ Inject(IF cfg.validate_syntax THEN o ELSE "", SyntaxErrors)
        /\ validation_results' =
               IF cfg.validate_syntax THEN SyntaxResults(o) ELSE validation_results
        /\ IF ValidationAborts(o)
           THEN /\ ReturnFalse
                /\ hist' = [Step("validation_failed") EXCEPT !.syntax = o]
           ELSE /\ pc' = "check"
                /\ ret' = ret
                /\ hist' = IF cfg.validate_syntax
                           THEN [Step("validated") EXCEPT !.syntax = o]
                           ELSE Step("validation_off")
    /\ UNCHANGED <<Fixed, clock, import_session_id, staged_files, config_files,
                   idx, check, Remote, pending, Local, nsessions>>

\* ----------------------------------------------------- _check_idempotency
\* Lines 207-231: the loop over config_files.  A file is a conflict when
\* `test -f` finds it and its md5sum differs from the local digest.
IsConflictNoExistenceTest(f, dir) == MD5(f.content) # MD5(dir[f.filename])

\* Lines 212-223: `test -f` says the file exists and the digests differ.
IsConflict(f, dir) ==
    LET exists == dir[f.filename] # Absent
        local_checksum == MD5(f.content)
        remote_checksum == MD5(dir[f.filename])
    IN exists /\ local_checksum # remote_checksum

RECURSIVE CheckLoop(_, _)
CheckLoop(files, dir) ==
    IF files = <<>> THEN <<>>
    ELSE LET f == Head(files)
             local_checksum == MD5(f.content)
             remote_checksum == MD5(dir[f.filename])
             found == IF IsConflict(f, dir)
                      THEN <<[file |-> f.filename, status |-> "MODIFIED",
                              local_checksum |-> local_checksum,
                              remote_checksum |-> remote_checksum]>>
                      ELSE <<>>
         IN found \o CheckLoop(Tail(files), dir)

\* Remote commands the loop sends: one `test -f` per file, one md5sum per
\* file that exists.
CheckCommands(files, dir) ==
    Len(files) + Cardinality({i \in 1 .. Len(files) : dir[files[i].filename] # Absent})

\* Lines 235-244: what a completed check stores in validation_results.
CheckResults(conflicts) ==
    IF conflicts # <<>>
    THEN [validation_results EXCEPT !.idempotency_conflicts = conflicts]
    ELSE [validation_results EXCEPT !.idempotency_check = "PASSED"]

CheckErrors == {"connect_error", "exec_error"}

CheckOutcomes ==
    IF os_bound THEN Outcomes({"ok"}, CheckErrors) ELSE {"name_error"}

Dirty(h) == h.wrote # {} \/ h.ran # {}

TransportFailure(h) ==
    [h EXCEPT !.transport_failed = TRUE,
              !.dirty_at_failure = @ \/ Dirty(h)]

\* Lines 99-101: the value returned by the check only selects a warning;
\* staging follows in every case.
CheckIdempotency ==
    /\ pc = "check"
    /\ \E o \in CheckOutcomes :
        /\ Inject(o, CheckErrors)
        /\ IF o = "ok"
           THEN LET conflicts == CheckLoop(config_files, import_dir) IN
                /\ check' = [ran |-> TRUE, completed |-> TRUE, conflicts |-> conflicts]
                /\ validation_results' = CheckResults(conflicts)
                /\ hist' = [Step("checked") EXCEPT
                               !.issued = @ \/ CheckCommands(config_files, import_dir) > 0]
           ELSE /\ check' = [ran |-> TRUE, completed |-> FALSE, conflicts |-> <<>>]
                /\ validation_results' = validation_results
                /\ hist' = IF o = "name_error" THEN Step("check_failed")
                           ELSE [TransportFailure(Step("check_failed")) EXCEPT
                                    !.issued = @ \/ o = "exec_error"]
    /\ pc' = "stage"
    /\ UNCHANGED <<Fixed, clock, import_session_id, staged_files, config_files,
                   idx, ret, Remote, pending, Local, nsessions>>

\* ------------------------------------------------ _stage_files_for_import
Cmd(kind, name) ==
    [kind |-> kind, sid |-> import_session_id, name |-> name, owner |-> nsessions]

\* Lines 277-286: one `cp` per artifact, sent only when backups are enabled.
BackupCommands ==
    IF cfg.create_backups
    THEN {Cmd("mkdir_backup", "")} \cup {Cmd("cp", n) : n \in SeqNames(config_files)}
    ELSE {}

\* Lines 273-286: every exec_command sent before the copy loop.
StagingCommands == {Cmd("mkdir_session", "")} \cup BackupCommands

StageErrors == {"connect_error", "sftp_error"}

StageOutcomes ==
    IF os_bound THEN Outcomes({"ok"}, StageErrors) ELSE {"name_error"}

\* Lines 259-290: connect, send mkdir and cp, open SFTP, reset staged_files.
StageOpen ==
    /\ pc = "stage"
    /\ \E o \in StageOutcomes :
        /\ Inject(o, StageErrors)
        /\ pending' = IF o \in {"ok", "sftp_error"}
                      THEN pending \cup StagingCommands ELSE pending
        /\ IF o = "ok"
           THEN /\ staged_files' = <<>>
                /\ idx' = 1
                /\ pc' = "copy"
                /\ ret' = ret
                /\ hist' = [hist EXCEPT !.issued = TRUE]
           ELSE /\ ReturnFalse
                /\ UNCHANGED <<staged_files, idx>>
                /\ hist' =
                     IF o = "name_error" THEN Step("staging_failed")
                     ELSE [TransportFailure(Step("staging_failed")) EXCEPT
                              !.issued = @ \/ o = "sftp_error"]
    /\ UNCHANGED <<Fixed, clock, import_session_id, validation_results,
                   config_files, check, Remote, Local, nsessions>>

\* The entry appended to self.staged_files (lines 307-312).
StagedEntry(f) ==
    [filename |-> f.filename, session |-> import_session_id,
     checksum |-> MD5(f.content)]

\* How one pass of the copy loop can end.  sftp.file(session_path, 'w') needs
\* the session directory, which exists only once the remote host has run the
\* mkdir; any SFTP or exec_command call can fail on the transport.
CopyErrors == {"session_write_error", "import_write_error", "exec_error"}

CopyOutcomes ==
    IF session_dirs[import_session_id].exists
    THEN Outcomes({"ok"}, CopyErrors)
    ELSE Outcomes({"no_dir"}, {"session_write_error"})

AfterCopyLeavesLoopEarly(last) == "instructions"

\* Lines 292 and 316-320: the loop goes on to the next file; after the last
\* one _stage_files_for_import returns True and the instructions follow.
AfterCopy(last) == IF last THEN "instructions" ELSE "copy"

\* Lines 292-320: one pass of the copy loop: write the session path, write
\* the import path, send chmod and chown, record the file; after the last
\* file close the connection and return True.
StageFile ==
    /\ pc = "copy"
    /\ LET f == config_files[idx]
           last == idx = Len(config_files)
       IN \E o \in CopyOutcomes :
            LET session_written == o \in {"ok", "import_write_error", "exec_error"}
                import_written == o \in {"ok", "exec_error"}
                wrote == (IF session_written THEN {<<"session", f.filename>>} ELSE {})
                         \cup (IF import_written THEN {<<"import", f.filename>>} ELSE {})
            IN
            /\ Inject(o, CopyErrors)
            /\ session_dirs' = IF session_written
                               THEN [session_dirs EXCEPT
                                       ![import_session_id].files[f.filename] = f.content]
                               ELSE session_dirs
            /\ import_dir' = IF import_written
                             THEN [import_dir EXCEPT ![f.filename] = f.content]
                             ELSE import_dir
            /\ IF o = "ok"
               THEN /\ staged_files' = Append(staged_files, StagedEntry(f))
                    /\ idx' = idx + 1
                    /\ pc' = AfterCopy(last)
                    /\ ret' = ret
                    /\ hist' = [(IF AfterCopy(last) = "instructions"
                                 THEN Step("staged") ELSE hist)
                                   EXCEPT !.wrote = @ \cup wrote]
               ELSE /\ UNCHANGED <<staged_files, idx>>
                    /\ ReturnFalse
                    /\ hist' =
                         LET h == [Step("staging_failed") EXCEPT !.wrote = @ \cup wrote]
                         IN IF o = "no_dir" THEN h ELSE TransportFailure(h)
    /\ UNCHANGED <<Fixed, clock, import_session_id, validation_results,
                   config_files, check, backup_dirs, pending, Local, nsessions>>

\* -------------------------------------------- _generate_import_instructions
RECURSIVE StagedNames(_)
StagedNames(s) == IF s = <<>> THEN {} ELSE {s[1].filename} \cup StagedNames(Tail(s))

\* Lines 326-387: the session-scoped instruction file lists self.staged_files;
\* a failure to write it is logged and swallowed.
GenerateInstructions ==
    /\ pc = "instructions"
    /\ \E o \in Outcomes({"written"}, {"io_error"}) :
         /\ Inject(o, {"io_error"})
         /\ instructions' =
              IF o = "written"
              THEN instructions \cup
                     {[session |-> import_session_id, files |-> StagedNames(staged_files)]}
              ELSE instructions
    /\ pc' = "notify"
    /\ hist' = Step("instructed")
    /\ UNCHANGED <<Fixed, clock, import_session_id, staged_files, validation_results,
                   config_files, idx, check, ret, Remote, pending, notified, nsessions>>

\* Lines 111-119 and 389-417: notify when enabled, then return True.
Notify ==
    /\ pc = "notify"
    /\ notified' =
          IF cfg.notifications_enabled
          THEN notified \cup
                 {[session |-> import_session_id, recipient |-> r] :
                      r \in cfg.notification_recipients}
          ELSE notified
    /\ pc' = "idle"
    /\ ret' = [op |-> "import_configurations", value |-> TRUE]
    /\ hist' = IF cfg.notifications_enabled
               THEN [hist EXCEPT !.steps = @ \o <<"notified", "awaiting_manual_import">>]
               ELSE Step("awaiting_manual_import")
    /\ UNCHANGED <<Fixed, faults, clock, import_session_id, staged_files, validation_results,
                   config_files, idx, check, Remote, pending, instructions, nsessions>>

\* ------------------------------------------------------ validate_post_import
\* Lines 419-442: a placeholder that logs and returns True.
ValidatePostImport ==
    /\ pc = "idle"
    /\ ret.op = "import_configurations"
    /\ ret' = [op |-> "validate_post_import", value |-> TRUE]
    /\ UNCHANGED <<Fixed, faults, clock, import_session_id, staged_files, validation_results,
                   pc, config_files, idx, check, Remote, pending, Local, nsessions, hist>>

\* ------------------------------------------------------------- remote host
\* `mkdir -p <dir>`
MkDir(dirs, sid) ==
    IF dirs[sid].exists THEN dirs ELSE [dirs EXCEPT ![sid] = EmptyDir]

\* `cp <import_directory>/<name> <backup_dir>/<name> 2>/dev/null || true`:
\* copies what the import path holds when the command runs; fails silently
\* when the source or the backup directory is missing.
Cp(dirs, sid, name) ==
    IF dirs[sid].exists /\ import_dir[name] # Absent
    THEN [dirs EXCEPT ![sid].files[name] = import_dir[name]]
    ELSE dirs

\* The remote host completes one of the commands sent with exec_command
\* (lines 275, 280, 286); the adapter never reads their exit status.
RemoteExec(c) ==
    /\ c \in pending
    /\ pending' = pending \ {c}
    /\ session_dirs' = IF c.kind = "mkdir_session"
                       THEN MkDir(session_dirs, c.sid) ELSE session_dirs
    /\ backup_dirs' = IF c.kind = "mkdir_backup" THEN MkDir(backup_dirs, c.sid)
                      ELSE IF c.kind = "cp" THEN Cp(backup_dirs, c.sid, c.name)
                      ELSE backup_dirs
    /\ hist' = IF c.owner = nsessions THEN [hist EXCEPT !.ran = @ \cup {c}] ELSE hist
    /\ UNCHANGED <<Fixed, faults, clock, import_session_id, staged_files, validation_results,
                   pc, config_files, idx, check, ret, import_dir, Local, nsessions>>

Commands ==
    [kind : {"mkdir_session", "mkdir_backup", "cp"}, sid : Ids,
     name : Names \cup {""}, owner : 1 .. MaxSessions]

\* ------------------------------------------------------------ specification
Next ==
    \/ \E files \in ConfigFiles, dt \in 0 .. MaxElapsed : Begin(files, dt)
    \/ Validate
    \/ CheckIdempotency
    \/ StageOpen
    \/ StageFile
    \/ GenerateInstructions
    \/ Notify
    \/ ValidatePostImport
    \/ \E c \in pending : RemoteExec(c)

Spec == Init /\ [][Next]_vars

TypeOK ==
    /\ pc \in {"idle", "validate", "check", "stage", "copy", "instructions",
               "notify"}
    /\ pending \subseteq Commands
    /\ import_dir \in [Names -> Contents \cup {Absent}]
    /\ nsessions \in 0 .. MaxSessions

\* ------------------------------------------------ _import_objects_via_api
\* __init__ sets none of base_url, session, update_existing, timeout and
\* verify_ssl; api.bound says whether the caller has set them on the object.
InitApi ==
    /\ os_bound = TRUE
    /\ nagios_installed = TRUE
    /\ faults = 0
    /\ cfg = [create_backups |-> TRUE, validate_syntax |-> TRUE,
              notifications_enabled |-> TRUE, notification_recipients |-> Recipients]
    /\ clock = 0
    /\ import_session_id = None
    /\ staged_files = <<>>
    /\ validation_results = NoResults
    /\ pc = "idle"
    /\ config_files = <<>>
    /\ idx = 0
    /\ check = NoCheck
    /\ ret = [op |-> "none", value |-> FALSE]
    /\ import_dir = InitialImportDir
    /\ session_dirs = [i \in Ids |-> NoDir]
    /\ backup_dirs = [i \in Ids |-> NoDir]
    /\ pending = {}
    /\ instructions = {}
    /\ notified = {}
    /\ nsessions = 0
    /\ hist = NewHist(import_dir)
    /\ \E bound, update_existing, use_checksums \in BOOLEAN :
       \E objects \in ObjectLists(use_checksums), remote \in InitialCollections :
          api = [bound |-> bound, update_existing |-> update_existing,
                 use_checksums |-> use_checksums, objects |-> objects, i |-> 0,
                 pc |-> "call", success |-> TRUE, calls |-> <<>>, remote |-> remote]
    /\ registry = NoRegistry
    /\ compiler = NoCompiler
    /\ deploy = NoDeploy

StagingVars ==
    <<os_bound, nagios_installed, faults, cfg, clock, import_session_id,
      staged_files, validation_results, pc, config_files, idx, check, ret,
      import_dir, session_dirs, backup_dirs, pending, instructions, notified,
      nsessions, hist>>

\* Line 592: the endpoint is built from self.base_url before the loop and
\* outside any try block.
ApiEnter ==
    /\ api.pc = "call"
    /\ api' = IF api.bound THEN [api EXCEPT !.pc = "loop", !.i = 1]
              ELSE [api EXCEPT !.pc = "raised"]
    /\ UNCHANGED <<StagingVars, registry, compiler, deploy>>

Matches(obj) == {r \in api.remote : r.checksum = obj.checksum}

\* _find_existing_object (lines 631-658): the ids the search can yield;
\* <<>> stands for None.  The search is by checksum only; a failed or empty
\* search gives None.
FindExisting(obj, search_ok) ==
    IF ~api.use_checksums \/ obj.checksum = <<>> \/ ~search_ok \/ Matches(obj) = {}
    THEN {<<>>}
    ELSE {<<r.id>> : r \in Matches(obj)}

\* Lines 600-617: PUT when an id was found and update_existing is set,
\* POST in every other case.
Method(existing_id) ==
    IF existing_id # <<>> /\ api.update_existing THEN "PUT" ELSE "POST"

\* What the server does with an accepted request.
Serve(method, existing_id, obj) ==
    IF method = "PUT"
    THEN {r \in api.remote : r.id # existing_id[1]} \cup {Stored(existing_id[1], obj)}
    ELSE api.remote \cup {Stored(Cardinality(api.remote) + 1, obj)}

\* Lines 595-627: one pass of the loop over the objects.
ImportObject ==
    /\ api.pc = "loop"
    /\ LET obj == api.objects[api.i] IN
       \E search_ok \in BOOLEAN, status \in {"ok", "http_error", "exception"} :
       \E existing_id \in FindExisting(obj, search_ok) :
          LET method == Method(existing_id)
              call == [method |-> method, obj |-> obj, id |-> existing_id,
                       present |-> Matches(obj) # {}]
          IN api' = [api EXCEPT
                       !.calls = Append(@, call),
                       !.remote = IF status = "ok" THEN Serve(method, existing_id, obj)
                                  ELSE @,
                       !.success = @ /\ status = "ok",
                       !.i = @ + 1,
                       !.pc = IF api.i = Len(api.objects) THEN "done" ELSE "loop"]
    /\ UNCHANGED <<StagingVars, registry, compiler, deploy>>

NextApi == ApiEnter \/ ImportObject

SpecApi == InitApi /\ [][NextApi]_vars

\* =================================================== plugins/check_manager
\* ---------------------------------------------------------------- strings
\* A Python string whose characters matter (it is lower-cased, searched or
\* rewritten) is a sequence of one-character strings.
UpperLetters ==
    <<"A", "B", "C", "D", "E", "F", "G", "H", "I", "J", "K", "L", "M",
      "N", "O", "P", "Q", "R", "S", "T", "U", "V", "W", "X", "Y", "Z">>
LowerLetters ==
    <<"a", "b", "c", "d", "e", "f", "g", "h", "i", "j", "k", "l", "m",
      "n", "o", "p", "q", "r", "s", "t", "u", "v", "w", "x", "y", "z">>
Digits == {"0", "1", "2", "3", "4", "5", "6", "7", "8", "9"}

IsUpper(c) == c \in {UpperLetters[i] : i \in DOMAIN UpperLetters}
IsLower(c) == c \in {LowerLetters[i] : i \in DOMAIN LowerLetters}
ToLower ==
    [c \in {UpperLetters[i] : i \in DOMAIN UpperLetters} |->
        LowerLetters[CHOOSE i \in DOMAIN UpperLetters : UpperLetters[i] = c]]
ToUpper ==
    [c \in {LowerLetters[i] : i \in DOMAIN LowerLetters} |->
        UpperLetters[CHOOSE i \in DOMAIN LowerLetters : LowerLetters[i] = c]]
LowerChar(c) == IF c \in DOMAIN ToLower THEN ToLower[c] ELSE c
UpperChar(c) == IF c \in DOMAIN ToUpper THEN ToUpper[c] ELSE c

\* str.lower() and str.upper()
Lower(s) == [i \in 1 .. Len(s) |-> LowerChar(s[i])]
Upper(s) == [i \in 1 .. Len(s) |-> UpperChar(s[i])]

\* str.replace(old, new): the occurrences of old, found from the left and
\* not overlapping, are replaced by new.
RECURSIVE Replace(_, _, _)
Replace(s, old, new) ==
    IF Len(s) < Len(old) THEN s
    ELSE IF SubSeq(s, 1, Len(old)) = old
         THEN new \o Replace(SubSeq(s, Len(old) + 1, Len(s)), old, new)
         ELSE <<s[1]>> \o Replace(Tail(s), old, new)

\* dict.get(key, default); a dictionary is a record, a missing key a missing field.
Get(d, key, default) == IF key \in DOMAIN d THEN d[key] ELSE default

\* JSON null, Python None, where a string is expected: no string equals it.
Null == <<"null">>

\* ------------------------------------------------------ protocol names
P_http == <<"h", "t", "t", "p">>
P_tcp == <<"t", "c", "p">>
P_TCP == <<"T", "C", "P">>
P_docker == <<"d", "o", "c", "k", "e", "r">>
P_kubernetes == <<"k", "u", "b", "e", "r", "n", "e", "t", "e", "s">>
P_prometheus == <<"p", "r", "o", "m", "e", "t", "h", "e", "u", "s">>
P_custom == <<"c", "u", "s", "t", "o", "m">>
P_redis == <<"r", "e", "d", "i", "s">>
P_ldap == <<"l", "d", "a", "p">>
\* Ports, as the text an f-string makes of them.
Port80 == <<"8", "0">>
Port389 == <<"3", "8", "9">>
Port5432 == <<"5", "4", "3", "2">>
Port6379 == <<"6", "3", "7", "9">>
Port8080 == <<"8", "0", "8", "0">>
PortAbc == <<"a", "b", "c">>
\* The url parameter of an http check.
UrlRoot == <<"/">>
UrlHealth == <<"/", "h", "e", "a", "l", "t", "h">>
UrlNoSlash == <<"h", "e", "a", "l", "t", "h">>
S_check == <<"c", "h", "e", "c", "k">>
S_Check == <<"C", "h", "e", "c", "k">>

\* ------------------------------------------------------ capability classes
\* A BaseCheck subclass: the module that defines it, its class name, and
\* whether it implements every abstract method of BaseCheck (a class that
\* does not cannot be instantiated: TypeError).
Class(module, name, concrete) ==
    [module |-> module, name |-> name, concrete |-> concrete]

HTTPCheck == Class("http", Upper(P_http) \o S_Check, TRUE)
TCPCheck == Class("tcp", Upper(P_tcp) \o S_Check, TRUE)
DockerCheck == Class("docker", <<"D">> \o Tail(P_docker) \o S_Check, TRUE)
KubernetesCheck == Class("kubernetes", <<"K">> \o Tail(P_kubernetes) \o S_Check, TRUE)
PrometheusCheck == Class("prometheus", <<"P">> \o Tail(P_prometheus) \o S_Check, TRUE)
CustomCheck == Class("custom", <<"C">> \o Tail(P_custom) \o S_Check, TRUE)

\* _load_builtin_checks, lines 29-36: the table, in the order of the dict.
builtin_checks ==
    << [name |-> P_http, class |-> HTTPCheck],
       [name |-> P_tcp, class |-> TCPCheck],
       [name |-> P_docker, class |-> DockerCheck],
       [name |-> P_kubernetes, class |-> KubernetesCheck],
       [name |-> P_prometheus, class |-> PrometheusCheck],
       [name |-> P_custom, class |-> CustomCheck] >>

\* The *.py files of plugins/checks that come with the repository, without
\* __init__.py; base.py defines BaseCheck only.
RepoModules == {"base", "custom", "docker", "http", "kubernetes", "prometheus", "tcp"}

\* Plugin files dropped into plugins/checks, the extension point of the
\* registry: two files that both define a class RedisCheck (the second one
\* leaves get_required_params out), and one that defines another TCPCheck.
RedisCheck == Class("redis", <<"R">> \o Tail(P_redis) \o S_Check, TRUE)
SentinelRedisCheck == Class("redis_sentinel", <<"R">> \o Tail(P_redis) \o S_Check, FALSE)
TlsTCPCheck == Class("tcp_tls", Upper(P_tcp) \o S_Check, TRUE)
PluginModules == {"redis", "redis_sentinel", "tcp_tls"}

\* Lines 62-63: the classes inspect.getmembers finds in a module that are
\* subclasses of BaseCheck other than BaseCheck, in getmembers' name order.
MembersOf(module) ==
    CASE module = "base" -> <<>>
      [] module = "redis" -> <<RedisCheck>>
      [] module = "redis_sentinel" -> <<SentinelRedisCheck>>
      [] module = "tcp_tls" -> <<TlsTCPCheck>>
      [] OTHER -> <<(CHOOSE b \in {builtin_checks[i] : i \in DOMAIN builtin_checks} :
                        b.class.module = module).class>>

\* Line 65: name.lower().replace('check', '')
CheckName(class) == Replace(Lower(class.name), S_check, <<>>)

\* dict.get(name) of a name that is not a key
Unbound == Class("", <<>>, FALSE)
RegistryNames == {P_http, P_tcp, P_docker, P_kubernetes, P_prometheus, P_custom, P_redis}
EmptyChecks == [n \in RegistryNames |-> Unbound]

\* Line 86: _load_check_class binds the name, whatever it was bound to.
LoadCheckClass(checks, name, class) == [checks EXCEPT ![name] = class]

\* Lines 38-43: the loop of _load_builtin_checks over the table.
RECURSIVE LoadBuiltins(_, _)
LoadBuiltins(checks, i) ==
    IF i > Len(builtin_checks) THEN checks
    ELSE LoadBuiltins(LoadCheckClass(checks, builtin_checks[i].name,
                                     builtin_checks[i].class), i + 1)

\* A registration that binds the name whether or not it is bound.
RegisterDynamicOverwrites(checks, class) ==
    [checks EXCEPT ![CheckName(class)] = class]

\* Lines 65-71: a discovered class is bound only to a name that is not bound.
RegisterDynamic(checks, class) ==
    IF checks[CheckName(class)] = Unbound
    THEN [checks EXCEPT ![CheckName(class)] = class]
    ELSE checks

\* Lines 58-71: one file of the glob, all its classes.
RECURSIVE LoadModule(_, _)
LoadModule(checks, members) ==
    IF members = <<>> THEN checks
    ELSE LoadModule(RegisterDynamic(checks, Head(members)), Tail(members))

\* ------------------------------------------------------------ get_check
\* Lines 88-103.  protocol.lower() is outside the try block: a protocol that
\* is not a string raises AttributeError.  An unbound name gives None, and so
\* does a class whose constructor raises.
GetCheck(checks, protocol) ==
    IF protocol = Null THEN [kind |-> "raise", class |-> Unbound]
    ELSE LET protocol_lower == Lower(protocol)
             check_class == IF protocol_lower \in DOMAIN checks
                            THEN checks[protocol_lower] ELSE Unbound
         IN IF check_class = Unbound THEN [kind |-> "none", class |-> Unbound]
            ELSE IF ~check_class.concrete THEN [kind |-> "none", class |-> Unbound]
            ELSE [kind |-> "instance", class |-> check_class]

\* --------------------------------------------- get_nagios_command of a check
\* A command line is the sequence of its words.  The modelled check_params
\* hold some of container_name, check_type, cpu_threshold, query,
\* resource_type, command and url; every other optional parameter is left
\* out of the input, so its part of the command line is not produced.
EmptyDict == <<>>
Rendered(words) == [raised |-> FALSE, value |-> words]
RenderRaised == [raised |-> TRUE, value |-> <<>>]

\* plugins/checks/tcp.py, lines 31-60
RenderTCP(config) ==
    Rendered(<<"check_tcp", "-H", Get(config, "host_address", ""),
               "-p", Get(config, "port", "None")>>)

\* plugins/checks/http.py, lines 35-70
RenderHTTP(config) ==
    LET url == Get(Get(config, "check_params", EmptyDict), "url", UrlRoot)
    IN Rendered(<<"check_http", "-H", Get(config, "host_address", ""),
                  "-p", Get(config, "port", Port80)>>
                \o (IF url # UrlRoot THEN <<"-u", url>> ELSE <<>>))

\* A threshold is a JSON number [num |-> n] or a JSON string [str |-> s].
ThresholdKey(check_type) ==
    CASE check_type = "cpu" -> "cpu_threshold"
      [] check_type = "memory" -> "memory_threshold"
      [] check_type = "disk" -> "disk_threshold"

\* plugins/checks/docker.py, lines 42-72; threshold + 10 raises TypeError on
\* a threshold that is a string.
RenderDocker(config) ==
    LET check_params == Get(config, "check_params", EmptyDict)
        container_name == Get(check_params, "container_name", "None")
        check_type == Get(check_params, "check_type", "running")
        base == <<"check_docker", "-c", container_name, "-t", check_type>>
    IN IF check_type \in {"cpu", "memory", "disk"}
       THEN LET threshold == Get(check_params, ThresholdKey(check_type), [num |-> 80])
            IN IF "num" \in DOMAIN threshold
               THEN Rendered(base \o <<"-w", ToString(threshold.num),
                                       "-c", ToString(threshold.num + 10)>>)
               ELSE RenderRaised
       ELSE Rendered(base)

\* plugins/checks/kubernetes.py, lines 49-78, for check_type 'status'
RenderKubernetes(config) ==
    LET check_params == Get(config, "check_params", EmptyDict)
    IN Rendered(<<"check_kubernetes", "-t", Get(check_params, "resource_type", "None"),
                  "-n", "default", "-c", "status">>)

\* plugins/checks/prometheus.py, lines 35-54
RenderPrometheus(config) ==
    LET check_params == Get(config, "check_params", EmptyDict)
    IN Rendered(<<"check_prometheus_metric", "-u", "http://localhost:9090",
                  "-q", Get(check_params, "query", "None"),
                  "-w", "80", "-c", "90", "-o", ">">>)

\* plugins/checks/custom.py, lines 30-54
RenderCustom(config) ==
    LET check_params == Get(config, "check_params", EmptyDict)
    IN Rendered(<<"check_custom_command", "-c", Get(check_params, "command", "None")>>)

\* The plugin RedisCheck renders a probe of its own.
RenderPlugin(config) ==
    Rendered(<<"check_redis", "-H", Get(config, "host_address", ""),
               "-p", Get(config, "port", Port6379)>>)

\* check_instance.get_nagios_command(enriched_config), by class.
Render(class, config) ==
    CASE class = TCPCheck -> RenderTCP(config)
      [] class = HTTPCheck -> RenderHTTP(config)
      [] class = DockerCheck -> RenderDocker(config)
      [] class = KubernetesCheck -> RenderKubernetes(config)
      [] class = PrometheusCheck -> RenderPrometheus(config)
      [] class = CustomCheck -> RenderCustom(config)
      [] OTHER -> RenderPlugin(config)

\* Lines 129-130 and 145-146: the generic TCP probe.
FallbackCommand(dependency_config, host_address) ==
    <<"check_tcp", "-H", host_address, "-p", Get(dependency_config, "port", Port80)>>

\* Lines 135-136: a copy of the dependency with the key host_address.
Enriched(dependency_config, host_address) ==
    [k \in DOMAIN dependency_config \cup {"host_address"} |->
        IF k = "host_address" THEN host_address ELSE dependency_config[k]]

\* CheckManager.get_nagios_command, lines 119-146.
GetNagiosCommand(checks, dependency_config, host_address) ==
    LET protocol == Get(dependency_config, "check_protocol", P_tcp)
        check_instance == GetCheck(checks, protocol)
    IN IF check_instance.kind = "raise" THEN RenderRaised
       ELSE IF check_instance.kind = "none"
            THEN Rendered(FallbackCommand(dependency_config, host_address))
            ELSE LET command == Render(check_instance.class,
                                       Enriched(dependency_config, host_address))
                 IN IF command.raised
                    THEN Rendered(FallbackCommand(dependency_config, host_address))
                    ELSE command

\* --------------------------------------------------- building the registry
\* Idle staging engine and API mode: the state of the other components while
\* the registry or the compiler runs.
Idle ==
    /\ os_bound = TRUE
    /\ nagios_installed = TRUE
    /\ faults = 0
    /\ cfg = [create_backups |-> TRUE, validate_syntax |-> TRUE,
              notifications_enabled |-> TRUE, notification_recipients |-> Recipients]
    /\ clock = 0
    /\ import_session_id = None
    /\ staged_files = <<>>
    /\ validation_results = NoResults
    /\ pc = "idle"
    /\ config_files = <<>>
    /\ idx = 0
    /\ check = NoCheck
    /\ ret = [op |-> "none", value |-> FALSE]
    /\ import_dir = InitialImportDir
    /\ session_dirs = [i \in Ids |-> NoDir]
    /\ backup_dirs = [i \in Ids |-> NoDir]
    /\ pending = {}
    /\ instructions = {}
    /\ notified = {}
    /\ nsessions = 0
    /\ hist = NewHist(import_dir)
    /\ api = NoApi

N_db == <<"d", "b">>
N_cache == <<"c", "a", "c", "h", "e">>

\* The dependencies get_nagios_command is called with.
RenderInputs ==
    { [name |-> N_db, port |-> Port5432],
      [name |-> N_db, check_protocol |-> P_TCP, port |-> Port80],
      [name |-> N_db, check_protocol |-> P_ldap, port |-> Port389],
      [name |-> N_db, check_protocol |-> P_ldap],
      [name |-> N_cache, check_protocol |-> P_redis, port |-> Port6379],
      [name |-> N_db, check_protocol |-> Null, port |-> Port5432],
      [name |-> N_cache, check_protocol |-> P_docker,
       check_params |-> [container_name |-> "cache"]],
      [name |-> N_cache, check_protocol |-> P_docker, port |-> Port6379,
       check_params |-> [container_name |-> "cache", check_type |-> "cpu",
                         cpu_threshold |-> [num |-> 80]]],
      [name |-> N_cache, check_protocol |-> P_docker, port |-> Port6379,
       check_params |-> [container_name |-> "cache", check_type |-> "cpu",
                         cpu_threshold |-> [str |-> "high"]]],
      [name |-> N_db, check_protocol |-> P_http, port |-> Port8080,
       check_params |-> [url |-> UrlHealth]],
      [name |-> N_db, check_protocol |-> P_prometheus,
       check_params |-> [query |-> "up"]] }
HostAddresses == {"10.0.0.1", "db.local"}

NoCall ==
    [made |-> FALSE, dependency |-> EmptyDict, host_address |-> "",
     raised |-> FALSE, value |-> <<>>]

\* CheckManager.__init__, line 20: self.checks = {}.  files is the content of
\* plugins/checks, first is the class of the first registration made under
\* each name (history).
InitRegistry ==
    /\ Idle
    /\ compiler = NoCompiler
    /\ deploy = NoDeploy
    /\ \E plugins \in SUBSET PluginModules :
          registry = [pc |-> "builtin", files |-> RepoModules \cup plugins,
                      pending |-> {}, checks |-> EmptyChecks,
                      first |-> EmptyChecks, call |-> NoCall]

RECURSIVE NoteFirst(_, _)
NoteFirst(first, registrations) ==
    IF registrations = <<>> THEN first
    ELSE LET r == Head(registrations)
         IN NoteFirst(IF first[r.name] = Unbound
                      THEN [first EXCEPT ![r.name] = r.class] ELSE first,
                      Tail(registrations))

\* _load_builtin_checks
LoadBuiltinChecks ==
    /\ registry.pc = "builtin"
    /\ registry' = [registry EXCEPT
                      !.pc = "dynamic",
                      !.pending = registry.files,
                      !.checks = LoadBuiltins(@, 1),
                      !.first = NoteFirst(@, builtin_checks)]
    /\ UNCHANGED <<StagingVars, api, compiler, deploy>>

\* _load_dynamic_checks: one pass of the loop over checks_dir.glob('*.py'),
\* which yields the files in the order of the file system.
LoadDynamicChecks(module) ==
    /\ registry.pc = "dynamic"
    /\ module \in registry.pending
    /\ LET members == MembersOf(module)
       IN registry' = [registry EXCEPT
                         !.pc = IF registry.pending = {module} THEN "ready" ELSE "dynamic",
                         !.pending = @ \ {module},
                         !.checks = LoadModule(@, members),
                         !.first = NoteFirst(@, [i \in DOMAIN members |->
                                        [name |-> CheckName(members[i]),
                                         class |-> members[i]]])]
    /\ UNCHANGED <<StagingVars, api, compiler, deploy>>

\* A call of check_manager.get_nagios_command on the built registry.
CallGetNagiosCommand(dependency_config, host_address) ==
    /\ registry.pc = "ready"
    /\ LET result == GetNagiosCommand(registry.checks, dependency_config, host_address)
       IN registry' = [registry EXCEPT
                         !.call = [made |-> TRUE, dependency |-> dependency_config,
                                   host_address |-> host_address,
                                   raised |-> result.raised, value |-> result.value]]
    /\ UNCHANGED <<StagingVars, api, compiler, deploy>>

NextRegistry ==
    \/ LoadBuiltinChecks
    \/ \E module \in RepoModules \cup PluginModules : LoadDynamicChecks(module)
    \/ \E dependency_config \in RenderInputs, host_address \in HostAddresses :
          CallGetNagiosCommand(dependency_config, host_address)

SpecRegistry == InitRegistry /\ [][NextRegistry]_vars

\* The registry the same files give when they are visited in name order.
ModuleOrder ==
    <<"base", "custom", "docker", "http", "kubernetes", "prometheus", "redis",
      "redis_sentinel", "tcp", "tcp_tls">>

RECURSIVE LoadInOrder(_, _, _)
LoadInOrder(checks, order, files) ==
    IF order = <<>> THEN checks
    ELSE LoadInOrder(IF Head(order) \in files
                     THEN LoadModule(checks, MembersOf(Head(order))) ELSE checks,
                     Tail(order), files)

\* The registry of the repository as shipped: every discovered class is
\* bound already, so the registry is the built-in table.
check_manager == LoadInOrder(LoadBuiltins(EmptyChecks, 1), ModuleOrder, RepoModules)

\* ================================================================= claims
InSession(n) == n \in SeqNames(config_files)
ContentOf(n) == (CHOOSE e \in {config_files[i] : i \in 1 .. Len(config_files)} :
                    e.filename = n).content
Has(step) == \E i \in 1 .. Len(hist.steps) : hist.steps[i] = step
Returned(value) ==
    pc = "idle" /\ ret = [op |-> "import_configurations", value |-> value]
ImportWritten(n) == <<"import", n>> \in hist.wrote
BackupHoldsOld(n) ==
    /\ backup_dirs[import_session_id].exists
    /\ backup_dirs[import_session_id].files[n] = hist.pre[n]

AllUnchanged ==
    /\ config_files # <<>>
    /\ \A i \in 1 .. Len(config_files) :
          /\ hist.pre[config_files[i].filename] # Absent
          /\ MD5(hist.pre[config_files[i].filename]) = MD5(config_files[i].content)

ExpectedConflicts ==
    {n \in Names : /\ InSession(n)
                   /\ hist.pre[n] # Absent
                   /\ MD5(hist.pre[n]) # MD5(ContentOf(n))}

ReportedConflicts == {check.conflicts[i].file : i \in 1 .. Len(check.conflicts)}

SyntaxFailed ==
    cfg.validate_syntax /\ hist.syntax \in {"rc_nonzero", "timeout", "error", "name_error"}

C4_ValidationGatesMutation ==
    SyntaxFailed =>
        /\ pc = "idle"
        /\ ret.op # "none"
        /\ ret.op = "import_configurations" => ~ret.value
        /\ ~hist.issued
        /\ hist.wrote = {}
        /\ hist.ran = {}
        /\ pending = {}
        /\ import_dir = hist.pre

C4_Witness ==
    /\ SyntaxFailed
    /\ hist.syntax = "timeout"
    /\ Returned(FALSE)
    /\ Len(config_files) = 2

StagingSucceeded ==
    /\ Len(staged_files) = Len(config_files)
    /\ \A i \in 1 .. Len(config_files) :
          /\ staged_files[i].filename = config_files[i].filename
          /\ staged_files[i].session = import_session_id
          /\ import_dir[config_files[i].filename] = config_files[i].content
          /\ session_dirs[import_session_id].files[config_files[i].filename] =
                config_files[i].content

StagingStarts == ~(pending' \subseteq pending) \/ ~(hist'.wrote \subseteq hist.wrote)

StagingFailed == pc = "idle" /\ Has("staging_failed")

C8_SessionIdsDiffer ==
    [][(pc = "idle" /\ pc' = "validate" /\ import_session_id # None)
          => import_session_id' # import_session_id]_vars

\* C9: after a second call on the same adapter, staged_files and
\* validation_results hold nothing recorded by the first call.
StagedByThisCall ==
    \A i \in 1 .. Len(staged_files) : ImportWritten(staged_files[i].filename)

ResultsOfThisCall ==
    /\ validation_results.syntax_check # Unset => hist.syntax \in {"rc0", "rc_nonzero"}
    /\ validation_results.idempotency_conflicts # Unset =>
          check.completed /\ validation_results.idempotency_conflicts = check.conflicts
    /\ validation_results.idempotency_check # Unset =>
          check.completed /\ check.conflicts = <<>>

NoValue == <<>>
IsDigit(s) == s # <<>> /\ \A i \in DOMAIN s : s[i] \in Digits

\* plugins/checks/tcp.py, lines 20-29
ValidateTCP(dependency_config) ==
    LET port == Get(dependency_config, "port", NoValue)
    IN port # NoValue /\ IsDigit(port)

\* plugins/checks/http.py, lines 20-33
ValidateHTTP(dependency_config) ==
    LET port == Get(dependency_config, "port", NoValue)
        url == Get(Get(dependency_config, "check_params", EmptyDict), "url", UrlRoot)
    IN /\ port # NoValue
       /\ IsDigit(port)
       /\ url # <<>> /\ Head(url) = "/"

\* plugins/checks/docker.py, lines 20-40
ValidateDocker(dependency_config) ==
    LET check_params == Get(dependency_config, "check_params", EmptyDict)
        check_type == Get(check_params, "check_type", "running")
    IN /\ Get(check_params, "container_name", "") # ""
       /\ check_type \in {"running", "status", "health", "cpu", "memory", "disk", "logs"}
       /\ check_type \in {"cpu", "memory", "disk"} =>
             ThresholdKey(check_type) \in DOMAIN check_params

\* plugins/checks/kubernetes.py, lines 20-47, for check_type 'status'
ValidateKubernetes(dependency_config) ==
    LET check_params == Get(dependency_config, "check_params", EmptyDict)
    IN Get(check_params, "resource_type", "") \in
          {"pod", "deployment", "service", "daemonset", "statefulset"}

\* plugins/checks/prometheus.py, lines 20-33
ValidatePrometheus(dependency_config) ==
    LET check_params == Get(dependency_config, "check_params", EmptyDict)
    IN /\ Get(check_params, "query", "") # ""
       /\ Get(check_params, "comparison", ">") \in {">", "<", ">=", "<=", "==", "!="}

\* plugins/checks/custom.py, lines 20-28
ValidateCustom(dependency_config) ==
    Get(Get(dependency_config, "check_params", EmptyDict), "command", "") # ""

\* check_instance.validate_config(dependency_config), by class; the plugin
\* RedisCheck accepts every configuration.
ValidateConfig(class, dependency_config) ==
    CASE class = TCPCheck -> ValidateTCP(dependency_config)
      [] class = HTTPCheck -> ValidateHTTP(dependency_config)
      [] class = DockerCheck -> ValidateDocker(dependency_config)
      [] class = KubernetesCheck -> ValidateKubernetes(dependency_config)
      [] class = PrometheusCheck -> ValidatePrometheus(dependency_config)
      [] class = CustomCheck -> ValidateCustom(dependency_config)
      [] OTHER -> TRUE

\* CheckManager.validate_dependency_config, lines 109-117: the first
\* component of the pair it returns; it raises where get_check raises.
ValidateDependencyConfig(checks, dependency_config) ==
    LET check_instance == GetCheck(checks, Get(dependency_config, "check_protocol", P_tcp))
    IN IF check_instance.kind = "raise" THEN [raised |-> TRUE, ok |-> FALSE]
       ELSE IF check_instance.kind = "none" THEN [raised |-> FALSE, ok |-> FALSE]
       ELSE [raised |-> FALSE, ok |-> ValidateConfig(check_instance.class, dependency_config)]

\* ========================================================= nagios_generator
MaxEnvs == 2          \* environments of one topology
MaxHosts == 2         \* hosts of one environment
MaxDeps == 2          \* dependencies of one topology

S_host == <<"h", "o", "s", "t", "_">>
S_svc == <<"s", "v", "c", "_">>
S_health == <<"h", "e", "a", "l", "t", "h", "_">>
S_contact == <<"c", "o", "n", "t", "a", "c", "t", "_">>
S_cg == <<"c", "g", "_">>
S_unknown == <<"u", "n", "k", "n", "o", "w", "n">>

\* __init__, lines 29-34
priority_mapping ==
    [p \in {"Crítica", "Alta", "Media", "Baja"} |->
        CASE p = "Crítica" -> [interval |-> 60, retry |-> 2, max_attempts |-> 3]
          [] p = "Alta" -> [interval |-> 300, retry |-> 3, max_attempts |-> 4]
          [] p = "Media" -> [interval |-> 600, retry |-> 5, max_attempts |-> 5]
          [] p = "Baja" -> [interval |-> 1800, retry |-> 10, max_attempts |-> 10]]

\* A lookup whose default is the row of the high tier.
GetPriorityConfigDefaultsToHigh(priority) ==
    IF priority \in DOMAIN priority_mapping THEN priority_mapping[priority]
    ELSE priority_mapping["Alta"]

\* _get_priority_config, lines 40-42
GetPriorityConfig(priority) ==
    IF priority \in DOMAIN priority_mapping THEN priority_mapping[priority]
    ELSE priority_mapping["Media"]

\* _generate_host_id, lines 44-46; host_type is not used.
GenerateHostId(env_name, host_type, host_id) ==
    S_host \o Lower(env_name) \o <<"_">>
           \o Replace(Replace(host_id, <<".">>, <<"_">>), <<"-">>, <<"_">>)

\* _generate_service_id, lines 48-50
GenerateServiceId(service_name, dep_name, env_name) ==
    S_svc \o Replace(Lower(service_name), <<" ">>, <<"_">>) \o <<"_">>
          \o Replace(Lower(dep_name), <<" ">>, <<"_">>) \o <<"_">> \o Lower(env_name)

RECURSIVE Flatten(_)
Flatten(lists) ==
    IF lists = <<>> THEN <<>> ELSE Head(lists) \o Flatten(Tail(lists))

ServiceName(data) ==
    Get(Get(data, "identification", EmptyDict), "service_name", S_unknown)

\* Lines 69 and 279
HostAddress(host) == Get(host, "address", Get(host, "identifier", <<>>))

\* generate_hosts_config, lines 67-92: the compiled host of one (env, host).
HostConfig(env, host) ==
    LET env_name == Get(env, "name", S_unknown)
        host_id == GenerateHostId(env_name, Get(host, "type", "host"),
                                  Get(host, "identifier", <<>>))
    IN [host_id |-> host_id,
        host_name |-> host_id,
        alias |-> <<env_name, " - ",
                    IF Get(host, "type", "host") = "container"
                    THEN Get(host, "identifier", <<>>) ELSE HostAddress(host)>>,
        address |-> HostAddress(host),
        env_name |-> env_name,
        env_desc |-> Get(env, "desc", ""),
        host_type |-> Get(host, "type", "host"),
        check_interval |-> 300,
        retry_interval |-> 60,
        max_check_attempts |-> 3]

\* generate_hosts_config, lines 58-117: hosts_data
HostsData(data) ==
    LET envs == Get(data, "envs", <<>>)
    IN Flatten([e \in DOMAIN envs |->
           LET hosts_in_env == Get(envs[e], "hosts", <<>>)
           IN [h \in DOMAIN hosts_in_env |-> HostConfig(envs[e], hosts_in_env[h])]])

\* generate_contacts_config, lines 128-146: contacts_data
ContactsData(data) ==
    LET responsables == Get(data, "responsables", <<>>)
    IN [i \in DOMAIN responsables |->
           [contact_id |-> S_contact \o Replace(Lower(Get(responsables[i], "nombre", <<>>)),
                                                <<" ">>, <<"_">>),
            contact_name |-> Get(responsables[i], "nombre", <<>>),
            email |-> Get(responsables[i], "email", "")]]

\* Lines 167, 223 and 292: cg_<service name, lower case, spaces to _>
ContactGroupId(service_name) == S_cg \o Replace(Lower(service_name), <<" ">>, <<"_">>)

\* generate_contacts_config, lines 148-183: the objects of contacts.cfg, one
\* define contact per element of contacts_data and then the contactgroup.
ContactsConfig(data) ==
    LET contacts_data == ContactsData(data)
    IN [i \in DOMAIN contacts_data |->
           [define |-> "contact",
            contact_name |-> contacts_data[i].contact_name,
            alias |-> contacts_data[i].contact_name,
            email |-> contacts_data[i].email]]
       \o << [define |-> "contactgroup",
              contactgroup_name |-> ContactGroupId(ServiceName(data)),
              alias |-> <<ServiceName(data), " Team">>,
              members |-> [i \in DOMAIN contacts_data |-> contacts_data[i].contact_id]] >>

\* str.split('/')[0]
RECURSIVE BeforeSlash(_)
BeforeSlash(s) ==
    IF s = <<>> \/ Head(s) = "/" THEN <<>>
    ELSE <<Head(s)>> \o BeforeSlash(Tail(s))

S_http == <<"h", "t", "t", "p", ":", "/", "/">>
S_https == <<"h", "t", "t", "p", "s", ":", "/", "/">>

\* generate_services_config, lines 203-226: the health services, one per
\* environment.  dependency, env and host say which pass of which loop made
\* a service (0: none).
HealthServices(data) ==
    LET service_name == ServiceName(data)
        health_details == Get(data, "health_api_details", EmptyDict)
        endpoint == Get(health_details, "endpoint", <<>>)
        interval == Get(health_details, "interval_sec", 300)
        envs == Get(data, "envs", <<>>)
    IN IF ~Get(data, "health_api", FALSE) THEN <<>>
       ELSE [e \in DOMAIN envs |->
               [service_id |-> S_svc \o S_health
                                  \o Replace(Lower(service_name), <<" ">>, <<"_">>)
                                  \o <<"_">> \o Lower(Get(envs[e], "name", <<>>)),
                service_description |-> <<"Health Check - ", service_name>>,
                host_name |-> <<"*">>,
                check_command |->
                    Rendered(<<"check_http", "-H",
                               BeforeSlash(Replace(Replace(endpoint, S_http, <<>>),
                                                   S_https, <<>>)),
                               "-u", endpoint>>),
                check_interval |-> interval,
                retry_interval |-> 60,
                max_check_attempts |-> 3,
                notification_interval |-> 60,
                contact_groups |-> ContactGroupId(service_name),
                dependency |-> 0, env |-> e, host |-> 0]]

\* Lines 255-263: the dependencies the loop leaves with continue.
Skipped(dep) ==
    LET dep_port == Get(dep, "port", NoValue)
        dep_protocol == Get(dep, "check_protocol", P_tcp)
    IN IF dep_protocol = P_docker /\ dep_port = NoValue
       THEN Get(Get(dep, "check_params", EmptyDict), "container_name", "") = ""
       ELSE dep_port = NoValue

\* Lines 265-296: the services of dependency number k, one per environment
\* and host; check_command holds what get_nagios_command returned or that
\* it raised.
DependencyServices(checks, data, k) ==
    LET dep == Get(data, "dependencies", <<>>)[k]
        service_name == ServiceName(data)
        dep_name == Get(dep, "name", <<>>)
        dep_protocol == Get(dep, "check_protocol", P_tcp)
        impact_config == GetPriorityConfig(Get(dep, "impact", "Media"))
        envs == Get(data, "envs", <<>>)
    IN IF Skipped(dep) THEN <<>>
       ELSE Flatten([e \in DOMAIN envs |->
              LET env_name == Get(envs[e], "name", <<>>)
                  hosts_in_env == Get(envs[e], "hosts", <<>>)
              IN [h \in DOMAIN hosts_in_env |->
                    LET host == hosts_in_env[h]
                    IN [service_id |-> GenerateServiceId(service_name, dep_name, env_name),
                        service_description |-> <<dep_name, " (", Upper(dep_protocol), ")">>,
                        host_name |-> GenerateHostId(env_name, Get(host, "type", "host"),
                                                     Get(host, "identifier", <<>>)),
                        check_command |-> GetNagiosCommand(checks, dep, HostAddress(host)),
                        check_interval |-> impact_config.interval,
                        retry_interval |-> impact_config.retry,
                        max_check_attempts |-> impact_config.max_attempts,
                        notification_interval |-> 60,
                        contact_groups |-> ContactGroupId(service_name),
                        dependency |-> k, env |-> e, host |-> h]]])

\* The dependency services ahead of the health services.
ServicesDataHealthLast(checks, data) ==
    LET dependencies == Get(data, "dependencies", <<>>)
    IN Flatten([k \in DOMAIN dependencies |-> DependencyServices(checks, data, k)])
       \o HealthServices(data)

\* generate_services_config, lines 188-316: services_data
ServicesData(checks, data) ==
    LET dependencies == Get(data, "dependencies", <<>>)
    IN HealthServices(data)
       \o Flatten([k \in DOMAIN dependencies |-> DependencyServices(checks, data, k)])

\* ---------------------------------------------------------- the topologies
ServiceNameWebApp == <<"W", "e", "b", " ", "A", "p", "p">>
EnvProd == <<"P", "r", "o", "d">>
EnvPreProd == <<"P", "r", "e", " ", "P", "r", "o", "d">>
EnvNames == {EnvProd, Lower(EnvProd), EnvPreProd}

HostWeb == [type |-> "host", identifier |-> <<"w", "e", "b", "-", "0", "1">>,
            address |-> "10.0.0.1"]
HostContainer == [type |-> "container", identifier |-> <<"W", "e", "b", ".", "0", "1">>]
HostDomain == [type |-> "domain", identifier |-> HostWeb.identifier,
               address |-> "web.example.org"]

\* The host lists: the first n hosts of a list that starts with a host and
\* a container, or of one that starts with a domain and a host under the
\* same identifier.
HostLists ==
    {[i \in 1 .. n |-> IF i % 2 = 1 THEN HostWeb ELSE HostContainer] : n \in 0 .. MaxHosts}
    \cup {[i \in 1 .. n |-> IF i % 2 = 1 THEN HostDomain ELSE HostWeb] : n \in 0 .. MaxHosts}
Environments == [name : EnvNames, hosts : HostLists]
EnvLists ==
    {envs \in UNION {[1 .. n -> Environments] : n \in 1 .. MaxEnvs} :
        \A i, j \in DOMAIN envs : i # j => envs[i].name # envs[j].name}

N_metrics == <<"M", "e", "t", "r", "i", "c", "s", " ", "A", "P", "I">>
Dependencies ==
    << [name |-> N_db, check_protocol |-> P_tcp, port |-> Port80, impact |-> "Alta"],
      [name |-> N_db, check_protocol |-> P_tcp, impact |-> "Crítica"],
      [name |-> N_db, port |-> PortAbc],
      [name |-> N_db, check_protocol |-> P_ldap, port |-> Port389, impact |-> "Baja"],
      [name |-> N_db, check_protocol |-> Null, port |-> Port5432, impact |-> "Alta"],
      [name |-> N_metrics, check_protocol |-> P_prometheus,
       check_params |-> [query |-> "up"]],
      [name |-> N_cache, check_protocol |-> P_docker, impact |-> "high",
       check_params |-> [container_name |-> "cache"]],
      [name |-> N_cache, check_protocol |-> P_docker, port |-> Port6379, impact |-> "Media",
       check_params |-> [check_type |-> "running"]],
      [name |-> N_metrics, check_protocol |-> P_http, port |-> Port8080,
       impact |-> "Crítica", check_params |-> [url |-> UrlNoSlash]],
      [name |-> N_metrics, check_protocol |-> P_http, port |-> Port8080,
       impact |-> "Crítica", check_params |-> [url |-> UrlHealth]] >>
\* The dependency lists: the dependencies picked in the order above.
DependencyLists ==
    {[i \in 1 .. Len(picks) |-> Dependencies[picks[i]]] :
        picks \in {p \in UNION {[1 .. n -> DOMAIN Dependencies] : n \in 0 .. MaxDeps} :
                      \A i, j \in DOMAIN p : i < j => p[i] < p[j]}}

Responsables ==
    << [nombre |-> <<"A", "n", "a", " ", "R", "u", "i", "z">>, email |-> "ana@example.org"],
       [nombre |-> <<"L", "u", "i", "s">>, email |-> "luis@example.org"] >>
ResponsableLists == {<<>>, Responsables}

Endpoint == S_http \o <<"w", "e", "b", "/", "h", "e", "a", "l", "t", "h">>
HealthChoices ==
    { [health_api |-> FALSE],
      [health_api |-> TRUE,
       health_api_details |-> [endpoint |-> Endpoint, interval_sec |-> 30]] }

\* The JSON document of the form, self.data.
Topologies ==
    { [k \in {"identification", "envs", "dependencies", "responsables"}
             \cup DOMAIN health |->
         CASE k = "identification" -> [service_name |-> ServiceNameWebApp]
           [] k = "envs" -> envs
           [] k = "dependencies" -> dependencies
           [] k = "responsables" -> responsables
           [] OTHER -> health[k]] :
      envs \in EnvLists, dependencies \in DependencyLists,
      responsables \in ResponsableLists, health \in HealthChoices }


\* ------------------------------------------------------ serialized text
\* A text is a sequence of lines; a line is its first word, the white space
\* after it and the rest of the line, or the whole line when it is taken as
\* one piece.  The templates of the generator separate a directive from its
\* value with a run of spaces.
Spaces == " "
Tab == "\t"
BlankLine == [key |-> "", sep |-> "", value |-> ""]
Bare(text) == [key |-> text, sep |-> "", value |-> ""]
Directive(key, value) == [key |-> key, sep |-> Spaces, value |-> value]

\* "\n".join(texts)
Join(texts) == Flatten(texts)

\* Lines 98-114: host_template.render(**host_config)
RenderHost(host_config) ==
    << BlankLine,
       Bare("define host {"),
       Directive("host_name", host_config.host_id),
       Directive("alias", host_config.alias),
       Directive("address", host_config.address),
       Directive("check_period", "24x7"),
       Directive("check_interval", ToString(host_config.check_interval)),
       Directive("retry_interval", ToString(host_config.retry_interval)),
       Directive("max_check_attempts", ToString(host_config.max_check_attempts)),
       Directive("check_command", "check_host_alive"),
       Directive("notification_interval", "60"),
       Directive("notification_period", "24x7"),
       Directive("notifications_enabled", "1"),
       Directive("register", "1"),
       Bare("}") >>

\* Lines 149-163 and 170-183: the contact and contactgroup templates.
RenderContact(block) ==
    IF block.define = "contact"
    THEN << BlankLine,
            Bare("define contact {"),
            Directive("contact_name", block.contact_name),
            Directive("alias", block.alias),
            Directive("email", block.email),
            Directive("service_notification_period", "24x7"),
            Directive("host_notification_period", "24x7"),
            Directive("service_notification_options", "w,u,c,r,f,s"),
            Directive("host_notification_options", "d,u,r,f,s"),
            Directive("service_notification_commands", "notify-service-by-email"),
            Directive("host_notification_commands", "notify-host-by-email"),
            Directive("register", "1"),
            Bare("}") >>
    ELSE << BlankLine,
            Bare("define contactgroup {"),
            Directive("contactgroup_name", block.contactgroup_name),
            Directive("alias", block.alias),
            Directive("members", block.members),
            Directive("register", "1"),
            Bare("}") >>

\* Lines 229-245 and 298-314: service_template.render(**service_config)
RenderService(service_config) ==
    << BlankLine,
       Bare("define service {"),
       Directive("service_description", service_config.service_description),
       Directive("host_name", service_config.host_name),
       Directive("check_command", service_config.check_command.value),
       Directive("check_interval", ToString(service_config.check_interval)),
       Directive("retry_interval", ToString(service_config.retry_interval)),
       Directive("max_check_attempts", ToString(service_config.max_check_attempts)),
       Directive("check_period", "24x7"),
       Directive("notification_interval", ToString(service_config.notification_interval)),
       Directive("notification_period", "24x7"),
       Directive("notifications_enabled", "1"),
       Directive("contact_groups", service_config.contact_groups),
       Directive("register", "1"),
       Bare("}") >>

\* Lines 324-375: standard_commands
standard_commands ==
    << 
[command_name |-> "check_host_alive",
        command_line |-> "$USER1$/check_ping -H $HOSTADDRESS$ -w 3000.0,80% -c 5000.0,100% -p 5"],
       [command_name |-> "check_http",
        command_line |-> "$USER1$/check_http -H $ARG1$ -u $ARG2$"],
       [command_name |-> "check_tcp",
        command_line |-> "$USER1$/check_tcp -H $ARG1$ -p $ARG2$"],
       [command_name |-> "check_ping",
        command_line |-> "$USER1$/check_ping -H $ARG1$ -w 100.0,20% -c 500.0,60% -p 5"],
       [command_name |-> "check_dns",
        command_line |-> "$USER1$/check_dns -H $ARG1$"],
       [command_name |-> "check_ldap",
        command_line |-> "$USER1$/check_ldap -H $ARG1$ -p $ARG2$"],
       [command_name |-> "check_smtp",
        command_line |-> "$USER1$/check_smtp -H $ARG1$ -p $ARG2$"],
       [command_name |-> "check_mysql",
        command_line |-> "$USER1$/check_mysql -H $ARG1$ -P $ARG2$ -u $ARG3$ -p $ARG4$"],
       [command_name |-> "notify-host-by-email",
        command_line |-> "/usr/bin/printf \"%b\" \"***** Nagios *****\\n\\nNotification Type: $NOTIFICATIONTYPE$\\nHost: $HOSTNAME$\\nState: $HOSTSTATE$\\nAddress: $HOSTADDRESS$\\nInfo: $HOSTOUTPUT$\\n\\nDate/Time: $LONGDATETIME$\\n\" | /usr/bin/mail -s \"** $NOTIFICATIONTYPE$ Host Alert: $HOSTNAME$ is $HOSTSTATE$ **\" $CONTACTEMAIL$"],
       [command_name |-> "notify-service-by-email",
        command_line |-> "/usr/bin/printf \"%b\" \"***** Nagios *****\\n\\nNotification Type: $NOTIFICATIONTYPE$\\nService: $SERVICEDESC$\\nHost: $HOSTALIAS$\\nAddress: $HOSTADDRESS$\\nState: $SERVICESTATE$\\n\\nDate/Time: $LONGDATETIME$\\n\\nAdditional Info:\\n\\n$SERVICEOUTPUT$\\n\" | /usr/bin/mail -s \"** $NOTIFICATIONTYPE$ Service Alert: $HOSTALIAS$/$SERVICEDESC$ is $SERVICESTATE$ **\" $CONTACTEMAIL$"] >>

\* generate_commands_config, lines 319-378
CommandsCfg ==
    << BlankLine, Directive("#", "Comandos estándar de Nagios") >>
    \o Flatten([i \in DOMAIN standard_commands |->
          << Bare("define command {"),
             Directive("command_name", standard_commands[i].command_name),
             Directive("command_line", standard_commands[i].command_line),
             Bare("}"),
             BlankLine >>])

\* datetime.now().strftime('%Y-%m-%d %H:%M:%S'): the wall clock, to the second.
Clock == {"2024-01-01 10:00:00", "2024-01-01 10:00:01"}

\* Lines 392-406: main_cfg
MainCfg(data, now) ==
    << BlankLine,
       Directive("#", "Configuración de Nagios generada automáticamente"),
       Directive("#", <<"Servicio: ",
                        Get(Get(data, "identification", EmptyDict), "service_name", "Unknown")>>),
       Directive("#", <<"Fecha de generación: ", now>>),
       Directive("#", "Archivo generado por el sistema de automatización de monitorización"),
       BlankLine,
       Directive("#", "Configuración principal"),
       Bare("cfg_dir=/etc/nagios/conf.d"),
       BlankLine,
       Directive("#", "Incluir configuraciones generadas"),
       Bare("cfg_file=/etc/nagios/objects/hosts.cfg"),
       Bare("cfg_file=/etc/nagios/objects/services.cfg"),
       Bare("cfg_file=/etc/nagios/objects/contacts.cfg"),
       Bare("cfg_file=/etc/nagios/objects/commands.cfg") >>

\* Lines 409-415: files_to_save
FileNames == {"hosts.cfg", "services.cfg", "contacts.cfg", "commands.cfg", "nagios.cfg"}
FilesToSave(c, now) ==
    [name \in FileNames |->
        CASE name = "hosts.cfg" ->
                Join([i \in DOMAIN c.hosts_data |-> RenderHost(c.hosts_data[i])])
          [] name = "services.cfg" ->
                Join([i \in DOMAIN c.services_data |-> RenderService(c.services_data[i])])
          [] name = "contacts.cfg" ->
                Join([i \in DOMAIN c.contacts_config |-> RenderContact(c.contacts_config[i])])
          [] name = "commands.cfg" -> CommandsCfg
          [] OTHER -> MainCfg(c.data, now)]
NoFiles == [name \in {} |-> <<>>]

\* ------------------------------------------------------ generate_all_configs
ReadyRegistry ==
    [pc |-> "ready", files |-> RepoModules, pending |-> {},
     checks |-> check_manager, first |-> check_manager, call |-> NoCall]

\* NagiosConfigGenerator(json_data): nothing is generated yet.
InitCompile ==
    /\ Idle
    /\ registry = ReadyRegistry
    /\ deploy = NoDeploy
    /\ \E data \in Topologies :
          compiler = [pc |-> "hosts", data |-> data, hosts_data |-> <<>>,
                      contacts_data |-> <<>>, contacts_config |-> <<>>,
                      services_data |-> <<>>, files |-> NoFiles,
                      run |-> 1, previous |-> NoFiles, result |-> "none",
                      parsed |-> NoFiles]

\* Line 385: generate_hosts_config
GenerateHostsConfig ==
    /\ compiler.pc = "hosts"
    /\ compiler' = [compiler EXCEPT !.pc = "contacts",
                                    !.hosts_data = HostsData(compiler.data)]
    /\ UNCHANGED <<StagingVars, api, registry, deploy>>

\* Line 386: generate_contacts_config
GenerateContactsConfig ==
    /\ compiler.pc = "contacts"
    /\ compiler' = [compiler EXCEPT !.pc = "services",
                                    !.contacts_data = ContactsData(compiler.data),
                                    !.contacts_config = ContactsConfig(compiler.data)]
    /\ UNCHANGED <<StagingVars, api, registry, deploy>>

\* Line 387: generate_services_config.  An exception out of
\* get_nagios_command leaves generate_all_configs: no services are returned.
GenerateServicesConfig ==
    /\ compiler.pc = "services"
    /\ \E services_data \in {ServicesData(registry.checks, compiler.data)} :
          compiler' =
             IF \E i \in DOMAIN services_data : services_data[i].check_command.raised
             THEN [compiler EXCEPT !.pc = "raised"]
             ELSE [compiler EXCEPT !.pc = "save", !.services_data = services_data]
    /\ UNCHANGED <<StagingVars, api, registry, deploy>>

\* Lines 388-432: the commands, the index file with the time of generation,
\* and the five files written to output_dir.
SaveFiles ==
    /\ compiler.pc = "save"
    /\ \E now \in Clock :
          compiler' = [compiler EXCEPT !.pc = "done", !.files = FilesToSave(compiler, now)]
    /\ UNCHANGED <<StagingVars, api, registry, deploy>>

NextCompile ==
    \/ GenerateHostsConfig
    \/ GenerateContactsConfig
    \/ GenerateServicesConfig
    \/ SaveFiles

SpecCompile == InitCompile /\ [][NextCompile]_vars

\* ------------------------------------------------- compiling a second time
\* A second NagiosConfigGenerator(json_data).generate_all_configs() on the
\* same document and the same registry, at a later moment; previous keeps
\* the files of the first run.
Recompile ==
    /\ compiler.pc = "done"
    /\ compiler.run = 1
    /\ compiler' = [pc |-> "hosts", data |-> compiler.data, hosts_data |-> <<>>,
                    contacts_data |-> <<>>, contacts_config |-> <<>>,
                    services_data |-> <<>>, files |-> NoFiles,
                    run |-> 2, previous |-> compiler.files, result |-> "none",
                    parsed |-> NoFiles]
    /\ UNCHANGED <<StagingVars, api, registry, deploy>>

\* The topologies of one environment.
InitRecompile == InitCompile /\ Len(compiler.data.envs) = 1

NextRecompile ==
    \/ NextCompile
    \/ Recompile

SpecRecompile == InitRecompile /\ [][NextRecompile]_vars

\* ------------------------------------------- _parse_nagios_config_blocks
\* nagiosql_adapter.py, lines 560-588, on the lines of a text.  A block is
\* the dictionary of its directives.
EmptyBlock == [key \in {} |-> ""]

RECURSIVE ParseLines(_, _, _, _, _)
ParseLines(lines, block_type, blocks, current_block, in_block) ==
    IF lines = <<>> THEN blocks
    ELSE LET line == Head(lines)
             rest == Tail(lines)
         IN IF line.key = "" \/ line.key = "#"
            THEN ParseLines(rest, block_type, blocks, current_block, in_block)
            ELSE IF line.sep = "" /\ line.key = block_type \o " {"
            THEN ParseLines(rest, block_type, blocks, EmptyBlock, TRUE)
            ELSE IF line.sep = "" /\ line.key = "}" /\ in_block
            THEN ParseLines(rest, block_type,
                            IF DOMAIN current_block # {} THEN Append(blocks, current_block)
                            ELSE blocks,
                            EmptyBlock, FALSE)
            ELSE IF in_block /\ line.sep = Tab
            THEN ParseLines(rest, block_type, blocks,
                            (line.key :> line.value) @@ current_block, in_block)
            ELSE ParseLines(rest, block_type, blocks, current_block, in_block)

ParseNagiosConfigBlocks(content, block_type) ==
    ParseLines(content, block_type, <<>>, EmptyBlock, FALSE)

\* Lines 447, 475 and 522: the blocks that _process_hosts_config,
\* _process_services_config and _process_contacts_config read from the
\* files of the compiler.
ParseCompiled ==
    /\ compiler.pc = "done"
    /\ compiler.run = 1
    /\ compiler' =
          [compiler EXCEPT
              !.pc = "parsed",
              !.parsed =
                 [name \in {"hosts.cfg", "services.cfg", "contacts.cfg"} |->
                     ParseNagiosConfigBlocks(
                        compiler.files[name],
                        CASE name = "hosts.cfg" -> "define host"
                          [] name = "services.cfg" -> "define service"
                          [] OTHER -> "define contact")]]
    /\ UNCHANGED <<StagingVars, api, registry, deploy>>

NextParse ==
    \/ NextCompile
    \/ ParseCompiled

SpecParse == InitRecompile /\ [][NextParse]_vars

\* ================================================== monitoring_automator.py
\* MonitoringAutomator.generate_monitoring_configs(json_file, nagios_only,
\* elastic_only) with Nagios generation selected; compiler.result is what
\* it returned.

\* The call has not started: the topology is in json_file.
InitAutomator ==
    /\ Idle
    /\ registry = ReadyRegistry
    /\ deploy = NoDeploy
    /\ \E data \in Topologies :
          /\ Len(data.envs) = 1
          /\ compiler = [pc |-> "validate_json", data |-> data, hosts_data |-> <<>>,
                         contacts_data |-> <<>>, contacts_config |-> <<>>,
                         services_data |-> <<>>, files |-> NoFiles,
                         run |-> 1, previous |-> NoFiles, result |-> "none",
                      parsed |-> NoFiles]

\* Lines 142-162: validate_json, discover_services (which may raise) and the
\* execution directory; then NagiosConfigGenerator is constructed, line 443
\* of nagios_generator.py.
ValidateAndDiscover ==
    /\ compiler.pc = "validate_json"
    /\ \E discovered \in BOOLEAN :
          compiler' = IF discovered THEN [compiler EXCEPT !.pc = "hosts"]
                      ELSE [compiler EXCEPT !.pc = "returned", !.result = "false"]
    /\ UNCHANGED <<StagingVars, api, registry, deploy>>

\* generate_nagios_from_json, lines 435-462 of nagios_generator.py: does the
\* call raise when generate_all_configs ended at `position`?  Every
\* exception is caught there and ([], {}) is returned.
GenerateNagiosFromJsonRaises(position) == FALSE

\* Lines 168-203: the answer of generate_nagios_from_json, the Elastic
\* generator unless nagios_only, the summary, and the value returned.
FinishGeneration ==
    /\ compiler.pc \in {"done", "raised"}
    /\ \E nagios_only \in BOOLEAN, elastic_raised \in BOOLEAN :
          compiler' =
             [compiler EXCEPT
                 !.pc = "returned",
                 !.result = IF GenerateNagiosFromJsonRaises(compiler.pc) THEN "false"
                            ELSE IF ~nagios_only /\ elastic_raised THEN "false"
                            ELSE "true"]
    /\ UNCHANGED <<StagingVars, api, registry, deploy>>

NextAutomator ==
    \/ ValidateAndDiscover
    \/ NextCompile
    \/ FinishGeneration

SpecAutomator == InitAutomator /\ [][NextAutomator]_vars

\* =========================================================== deployment.py
\* One run of main(): the configuration of config.yml, the command line,
\* the local configuration directory, and the answers of the remote server.
\* deploy.log is what reached the server, in order.

\* Lines 212 and 231: config_files
NagiosConfigFiles == <<"hosts.cfg", "services.cfg", "contacts.cfg", "commands.cfg">>

\* config_dir / "nagios" on the controlling host: missing, or a directory
\* holding some of the four files.
NagiosDirMissing == {"<missing>"}
LocalDirs == {NagiosDirMissing, {}, {"hosts.cfg", "commands.cfg"},
              {"hosts.cfg", "services.cfg", "contacts.cfg", "commands.cfg"}}

SelectSeq2(seq, keep) ==
    LET F[i \in 0 .. Len(seq)] ==
          IF i = 0 THEN <<>>
          ELSE IF seq[i] \in keep THEN Append(F[i - 1], seq[i]) ELSE F[i - 1]
    IN F[Len(seq)]

Sent(op, arg, exit) == [op |-> op, arg |-> arg, exit |-> exit]

\* config.yml and the command line
DeployConfigs ==
    [dry_run : BOOLEAN, backup_before_deploy : BOOLEAN,
     validate_after_deploy : BOOLEAN, sudo_required : BOOLEAN]
DeployArgs ==
    {a \in [dry_run : BOOLEAN, nagios_only : BOOLEAN, elastic_only : BOOLEAN,
            config_dir_exists : BOOLEAN] :
        ~(a.nagios_only /\ a.elastic_only)}

InitDeploy ==
    /\ Idle
    /\ registry = NoRegistry
    /\ compiler = NoCompiler
    /\ \E config \in DeployConfigs, args \in DeployArgs, local \in LocalDirs :
          deploy = [pc |-> "main", config |-> config, args |-> args, local |-> local,
                    ssh |-> "none", log |-> <<>>, success |-> TRUE, ret |-> "none"]

DeployStep(d) ==
    /\ deploy' = d
    /\ UNCHANGED <<StagingVars, api, registry, compiler>>

\* Lines 497-504: after deploy_nagios, deploy_elastic unless --nagios-only.
AfterNagios(d, ok) ==
    LET e == [d EXCEPT !.success = ok]
    IN IF e.args.nagios_only
       THEN [e EXCEPT !.pc = "returned", !.ret = IF ok THEN "true" ELSE "false"]
       ELSE [e EXCEPT !.pc = "elastic"]

\* Lines 139-140: the finally clause of deploy_nagios.
CloseAndReturn(d, ok) == AfterNagios([d EXCEPT !.ssh = "closed"], ok)

\* main, lines 586-604, deploy_all, lines 480-499, and deploy_nagios up to
\* the answer of _connect_ssh, lines 93-109.
Main ==
    /\ deploy.pc = "main"
    /\ LET d == [deploy EXCEPT !.config.dry_run = deploy.config.dry_run \/ deploy.args.dry_run]
       IN IF ~d.args.config_dir_exists
          THEN DeployStep([d EXCEPT !.pc = "returned", !.ret = "false"])
          ELSE IF d.args.elastic_only
          THEN DeployStep([d EXCEPT !.pc = "elastic"])
          ELSE \E connected \in BOOLEAN :
                  IF connected
                  THEN DeployStep([d EXCEPT !.pc = "backup", !.ssh = "open"])
                  ELSE DeployStep(AfterNagios(d, FALSE))

\* Lines 113-114 and _backup_nagios_configs, lines 198-224: a result that
\* deploy_nagios does not look at.
BackupNagiosConfigs ==
    /\ deploy.pc = "backup"
    /\ IF ~deploy.config.backup_before_deploy
       THEN DeployStep([deploy EXCEPT !.pc = "copy"])
       ELSE \E exit \in {0, 1} :
              DeployStep([deploy EXCEPT
                 !.pc = "copy",
                 !.log = @ \o <<Sent("exec", "mkdir -p backup", exit)>>
                           \o (IF exit # 0 THEN <<>>
                               ELSE [i \in DOMAIN NagiosConfigFiles |->
                                       Sent("exec", "cp to backup", 0)])])

\* _copy_nagios_configs, lines 236-243: what is sent for one local file.
CopyOne(config, cfg_file) ==
    << Sent("put", cfg_file, 0), Sent("chmod 644", cfg_file, 0) >>
    \o (IF config.sudo_required THEN <<Sent("chown nagios:nagios", cfg_file, 0)>> ELSE <<>>)

\* Lines 117-119 and _copy_nagios_configs, lines 226-250: the files present
\* are sent in the order of config_files; an exception stops the loop after
\* the first n of them, and deploy_nagios does not look at the result.
CopyNagiosConfigs ==
    /\ deploy.pc = "copy"
    /\ IF deploy.local = NagiosDirMissing
       THEN DeployStep([deploy EXCEPT !.pc = "validate"])
       ELSE LET present == SelectSeq2(NagiosConfigFiles, deploy.local)
            IN \E n \in 0 .. Len(present) :
                  DeployStep([deploy EXCEPT
                     !.pc = "validate",
                     !.log = @ \o Flatten([i \in 1 .. n |->
                                              CopyOne(deploy.config, present[i])])])

\* _validate_nagios_config, lines 256-264: the exit status decides.
NagiosConfigValidAlways(exit_status) == TRUE
NagiosConfigValid(exit_status) == exit_status = 0

\* Lines 122-124 and _validate_nagios_config, lines 252-268; raised: the
\* command could not be run.
ValidateNagiosConfig ==
    /\ deploy.pc = "validate"
    /\ \E raised \in BOOLEAN, exit_status \in {0, 1} :
          IF raised
          THEN DeployStep(CloseAndReturn(deploy, FALSE))
          ELSE LET d == [deploy EXCEPT
                            !.log = Append(@, Sent("exec", "nagios -v /etc/nagios/nagios.cfg",
                                                   exit_status))]
               IN IF NagiosConfigValid(exit_status)
                  THEN DeployStep([d EXCEPT !.pc = "restart"])
                  ELSE DeployStep(CloseAndReturn(d, FALSE))

\* Lines 127-128 and _restart_nagios_service, lines 270-291: a result that
\* deploy_nagios does not look at.
RestartNagiosService ==
    /\ deploy.pc = "restart"
    /\ IF deploy.config.dry_run
       THEN DeployStep([deploy EXCEPT !.pc = "verify"])
       ELSE \E exit_status \in {0, 1} :
              DeployStep([deploy EXCEPT
                 !.pc = "verify",
                 !.log = Append(@, Sent("exec", "sudo systemctl restart nagios",
                                        exit_status))])

\* Lines 131-137 and _verify_nagios_service, lines 293-309
VerifyNagiosService ==
    /\ deploy.pc = "verify"
    /\ IF ~deploy.config.validate_after_deploy
       THEN DeployStep(CloseAndReturn(deploy, TRUE))
       ELSE \E exit_status \in {0, 1} :
              DeployStep(CloseAndReturn(
                 [deploy EXCEPT
                     !.log = Append(@, Sent("exec", "sudo systemctl is-active nagios",
                                            exit_status))],
                 exit_status = 0))

\* deploy_elastic, lines 142-172, by its result alone, and the return of
\* deploy_all, lines 502-513.
DeployElastic ==
    /\ deploy.pc = "elastic"
    /\ \E ok \in BOOLEAN :
          DeployStep([deploy EXCEPT
             !.pc = "returned",
             !.success = deploy.success /\ ok,
             !.ret = IF deploy.success /\ ok THEN "true" ELSE "false"])

NextDeploy ==
    \/ Main
    \/ BackupNagiosConfigs
    \/ CopyNagiosConfigs
    \/ ValidateNagiosConfig
    \/ RestartNagiosService
    \/ VerifyNagiosService
    \/ DeployElastic

SpecDeploy == InitDeploy /\ [][NextDeploy]_vars

\* ------------------------------------------------------------------ C11
\* C11 as stated: the registry binds every name to the class registered
\* first under it, and the finished registry does not depend on the order in
\* which the discovered files were visited: it is the registry the same files
\* give when visited in name order.
C11_ResolutionIndependentOfDiscoveryOrder ==
    /\ registry.pc \in {"dynamic", "ready"} =>
          \A n \in RegistryNames : registry.checks[n] = registry.first[n]
    /\ registry.pc = "ready" =>
          registry.checks = LoadInOrder(LoadBuiltins(EmptyChecks, 1), ModuleOrder,
                                        registry.files)

\* C11, amended: registration is first-wins.  Every step of the registry
\* leaves each name bound to the class of the first registration made under
\* it, never rebinds a bound name, and once the built-in table is loaded its
\* names stay bound to the built-in classes whatever files are discovered
\* and in whatever order.  (A name that only discovered files define is bound
\* to the class of the file visited first.)
C11_FirstRegistrationWins ==
    [][ /\ \A n \in RegistryNames :
              /\ registry'.checks[n] = registry'.first[n]
              /\ registry.checks[n] # Unbound => registry'.checks[n] = registry.checks[n]
        /\ \A i \in DOMAIN builtin_checks :
              registry'.checks[builtin_checks[i].name] = builtin_checks[i].class
      ]_vars

\* Both plugin files that define RedisCheck and the one that defines a second
\* TCPCheck were discovered; tcp is still the built-in class and redis is the
\* class of redis_sentinel.py, which was visited before redis.py.
C11_Witness ==
    /\ registry.pc = "ready"
    /\ PluginModules \subseteq registry.files
    /\ registry.checks[P_tcp] = TCPCheck
    /\ registry.checks[P_redis] = SentinelRedisCheck

\* ------------------------------------------------------------------ C12
\* C12: get_nagios_command never raises, and when the protocol does not
\* resolve, the class cannot be instantiated or its rendering raises, it
\* returns check_tcp -H <target address> -p <declared port>.
C12_RenderCommandNeverRaises ==
    LET c == registry.call
        check_instance == GetCheck(registry.checks,
                                   Get(c.dependency, "check_protocol", P_tcp))
    IN c.made =>
          /\ ~c.raised
          /\ c.value # <<>>
          /\ ( /\ "port" \in DOMAIN c.dependency
               /\ \/ check_instance.kind # "instance"
                  \/ Render(check_instance.class,
                            Enriched(c.dependency, c.host_address)).raised )
             => c.value = <<"check_tcp", "-H", c.host_address, "-p", c.dependency.port>>

\* ------------------------------------------------------------ C13 .. C20
\* The dependency a compiled service was made from.
DependencyOf(service) == compiler.data.dependencies[service.dependency]
DependencyServiceIndexes ==
    {i \in DOMAIN compiler.services_data : compiler.services_data[i].dependency > 0}
Resolves(dep) ==
    GetCheck(registry.checks, Get(dep, "check_protocol", P_tcp)).kind = "instance"
Validates(dep) ==
    LET result == ValidateDependencyConfig(registry.checks, dep)
    IN ~result.raised /\ result.ok

\* C13: a dependency whose protocol does not resolve in the registry
\* contributes no service to the compiled service list.
C13_UnresolvedProtocolSkipped ==
    compiler.pc = "done" =>
        \A i \in DependencyServiceIndexes :
            Resolves(DependencyOf(compiler.services_data[i]))

\* C14: every dependency-derived service comes from a dependency whose
\* parameters pass validate_config of its protocol.
C14_ServicesFromValidDependencies ==
    compiler.pc = "done" =>
        \A i \in DependencyServiceIndexes :
            LET dep == DependencyOf(compiler.services_data[i])
            IN Resolves(dep) => Validates(dep)

\* get_required_params of each built-in check: the mandatory parameter and
\* whether the dependency carries it.
HasRequiredParam(dep) ==
    LET class == GetCheck(registry.checks, Get(dep, "check_protocol", P_tcp)).class
        check_params == Get(dep, "check_params", EmptyDict)
    IN CASE class \in {TCPCheck, HTTPCheck} -> "port" \in DOMAIN dep
         [] class = DockerCheck -> "container_name" \in DOMAIN check_params
         [] class = KubernetesCheck -> "resource_type" \in DOMAIN check_params
         [] class = PrometheusCheck -> "query" \in DOMAIN check_params
         [] class = CustomCheck -> "command" \in DOMAIN check_params
         [] OTHER -> TRUE

ServicesOf(k, e, h) ==
    {i \in DOMAIN compiler.services_data :
        /\ compiler.services_data[i].dependency = k
        /\ compiler.services_data[i].env = e
        /\ compiler.services_data[i].host = h}

\* C15: a dependency without its protocol's mandatory parameter has no
\* service, and every dependency whose protocol resolves and whose parameters
\* validate has a service for each host of each environment.
C15_SkipOnMissingIsLocal ==
    compiler.pc = "done" =>
        \A k \in DOMAIN compiler.data.dependencies :
            LET dep == compiler.data.dependencies[k]
            IN \A e \in DOMAIN compiler.data.envs :
               \A h \in DOMAIN compiler.data.envs[e].hosts :
                  /\ (Resolves(dep) /\ ~HasRequiredParam(dep)) => ServicesOf(k, e, h) = {}
                  /\ (Resolves(dep) /\ Validates(dep)) => ServicesOf(k, e, h) # {}

\* C16: the service list holds exactly one health service per environment
\* when the health endpoint is configured, exactly one service per
\* environment and host for each compilable dependency, and nothing else.
C16_ServiceCardinality ==
    compiler.pc = "done" =>
        /\ \A e \in DOMAIN compiler.data.envs :
              Cardinality(ServicesOf(0, e, 0)) =
                  IF Get(compiler.data, "health_api", FALSE) THEN 1 ELSE 0
        /\ \A k \in DOMAIN compiler.data.dependencies :
           \A e \in DOMAIN compiler.data.envs :
           \A h \in DOMAIN compiler.data.envs[e].hosts :
              Cardinality(ServicesOf(k, e, h)) =
                  IF Validates(compiler.data.dependencies[k]) THEN 1 ELSE 0

\* The fixed table of impact tiers; every other tier, and no tier, gives the
\* row of the medium tier.
TierRow(impact) ==
    CASE impact = "Crítica" -> <<60, 2, 3>>
      [] impact = "Alta" -> <<300, 3, 4>>
      [] impact = "Baja" -> <<1800, 10, 10>>
      [] OTHER -> <<600, 5, 5>>

Normalize(s) ==
    [i \in 1 .. Len(s) |->
        IF IsLower(LowerChar(s[i])) \/ s[i] \in Digits THEN LowerChar(s[i]) ELSE "_"]

\* The (environment name, host identifier) of each compiled host, in the
\* order of hosts_data.
HostKeys ==
    Flatten([e \in DOMAIN compiler.data.envs |->
        [h \in DOMAIN compiler.data.envs[e].hosts |->
            [env_name |-> compiler.data.envs[e].name,
             identifier |-> compiler.data.envs[e].hosts[h].identifier]]])
HostsCompiled == compiler.pc \in {"contacts", "services", "save", "done"}

\* C18: the id of every compiled host is host_<environment name>_<host
\* identifier> with both parts in the reference normalization.
C18_HostIdNormalized ==
    HostsCompiled =>
        \A i \in DOMAIN compiler.hosts_data :
            compiler.hosts_data[i].host_id
              = S_host \o Normalize(HostKeys[i].env_name) \o <<"_">>
                       \o Normalize(HostKeys[i].identifier)

\* The dependency name and environment name a dependency-derived service
\* was made from.
ServiceKey(service) ==
    [dep_name |-> DependencyOf(service).name,
     env_name |-> compiler.data.envs[service.env].name]

\* Host ids and service ids are functions of their keys alone.
IdsAreFunctionsOfKeys ==
    /\ HostsCompiled =>
          \A i, j \in DOMAIN compiler.hosts_data :
              HostKeys[i] = HostKeys[j] =>
                  compiler.hosts_data[i].host_id = compiler.hosts_data[j].host_id
    /\ compiler.pc = "done" =>
          \A i, j \in DependencyServiceIndexes :
              ServiceKey(compiler.services_data[i]) = ServiceKey(compiler.services_data[j])
                  => compiler.services_data[i].service_id
                       = compiler.services_data[j].service_id

\* C19 as stated: ids are functions of their keys alone, and for one host
\* identifier two different environment names give two different host ids.
C19_IdStability ==
    /\ IdsAreFunctionsOfKeys
    /\ HostsCompiled =>
          \A i, j \in DOMAIN compiler.hosts_data :
              ( /\ HostKeys[i].identifier = HostKeys[j].identifier
                /\ HostKeys[i].env_name # HostKeys[j].env_name )
              => compiler.hosts_data[i].host_id # compiler.hosts_data[j].host_id

\* What _generate_host_id does guarantee: ids are functions of their keys
\* alone, and for one host identifier two environment names give the same
\* host id exactly when they are equal after lower-casing.
IdStabilityUpToCase ==
    /\ IdsAreFunctionsOfKeys
    /\ HostsCompiled =>
          \A i, j \in DOMAIN compiler.hosts_data :
              /\ ( /\ HostKeys[i].identifier = HostKeys[j].identifier
                   /\ Lower(HostKeys[i].env_name) # Lower(HostKeys[j].env_name) )
                 => compiler.hosts_data[i].host_id # compiler.hosts_data[j].host_id
              /\ ( /\ HostKeys[i].identifier = HostKeys[j].identifier
                   /\ Lower(HostKeys[i].env_name) = Lower(HostKeys[j].env_name) )
                 => compiler.hosts_data[i].host_id = compiler.hosts_data[j].host_id

ContactsCompiled == compiler.pc \in {"services", "save", "done"}
ContactGroups ==
    {i \in DOMAIN compiler.contacts_config :
        compiler.contacts_config[i].define = "contactgroup"}
Contacts ==
    {i \in DOMAIN compiler.contacts_config :
        compiler.contacts_config[i].define = "contact"}

\* C20: one contact per responsible party, exactly one contact group, named
\* cg_<service name in lower case with spaces as underscores>, whose members
\* are the contacts defined in contacts.cfg (by their contact_name, which is
\* how a contactgroup refers to a contact) and nothing else, and every
\* compiled service names that group.
C20_ContactCompilation ==
    /\ ContactsCompiled =>
          /\ Len(compiler.contacts_data) = Len(compiler.data.responsables)
          /\ Cardinality(Contacts) = Len(compiler.data.responsables)
          /\ \A i \in DOMAIN compiler.contacts_data :
                compiler.contacts_data[i].contact_name = compiler.data.responsables[i].nombre
          /\ Cardinality(ContactGroups) = 1
          /\ \A g \in ContactGroups :
                /\ compiler.contacts_config[g].contactgroup_name
                     = S_cg \o [i \in 1 .. Len(ServiceNameWebApp) |->
                                   IF ServiceNameWebApp[i] = " " THEN "_"
                                   ELSE LowerChar(ServiceNameWebApp[i])]
                /\ Len(compiler.contacts_config[g].members) = Cardinality(Contacts)
                /\ { compiler.contacts_config[g].members[i] :
                         i \in DOMAIN compiler.contacts_config[g].members }
                     = { compiler.contacts_config[c].contact_name : c \in Contacts }
    /\ compiler.pc = "done" =>
          \A i \in DOMAIN compiler.services_data : \A g \in ContactGroups :
              compiler.services_data[i].contact_groups
                = compiler.contacts_config[g].contactgroup_name

\* The hosts declared before host h of environment e, plus one.
RECURSIVE HostsBefore(_)
HostsBefore(e) ==
    IF e = 1 THEN 0 ELSE HostsBefore(e - 1) + Len(compiler.data.envs[e - 1].hosts)
Rank(e, h) == HostsBefore(e) + h
LexLess(a, b) ==
    \/ a[1] < b[1]
    \/ a[1] = b[1] /\ a[2] < b[2]
    \/ a[1] = b[1] /\ a[2] = b[2] /\ a[3] < b[3]
Loops(service) == <<service.dependency, service.env, service.host>>

\* C21: hosts are emitted in environment declaration order and, inside an
\* environment, in host declaration order; services are emitted with the
\* health services first, in environment order, and then the dependency
\* services by dependency order, then environment order, then host order.
C21_EmissionOrder ==
    /\ HostsCompiled =>
          /\ Len(compiler.hosts_data) = HostsBefore(Len(compiler.data.envs) + 1)
          /\ \A e \in DOMAIN compiler.data.envs :
                \A h \in DOMAIN compiler.data.envs[e].hosts :
                    LET host == compiler.data.envs[e].hosts[h]
                        compiled == compiler.hosts_data[Rank(e, h)]
                    IN /\ compiled.env_name = compiler.data.envs[e].name
                       /\ compiled.host_type = host.type
                       /\ compiled.address
                            = IF "address" \in DOMAIN host THEN host.address
                              ELSE host.identifier
    /\ compiler.pc = "done" =>
          /\ \A i, j \in DOMAIN compiler.services_data :
                i < j => LexLess(Loops(compiler.services_data[i]),
                                 Loops(compiler.services_data[j]))
          /\ \A i \in DOMAIN compiler.services_data :
                LET service == compiler.services_data[i]
                IN IF service.dependency = 0
                   THEN /\ compiler.data.health_api
                        /\ i = service.env
                        /\ service.host_name = <<"*">>
                   ELSE service.host_name
                          = compiler.hosts_data[Rank(service.env, service.host)].host_name

\* Health services, and the services of two dependencies on the hosts of
\* two environments, one of them with two hosts.
C21_Witness ==
    /\ compiler.pc = "done"
    /\ Len(compiler.data.envs) = 2
    /\ \E e \in DOMAIN compiler.data.envs : Len(compiler.data.envs[e].hosts) = 2
    /\ \A e \in DOMAIN compiler.data.envs : compiler.data.envs[e].hosts # <<>>
    /\ \E i \in DOMAIN compiler.services_data : compiler.services_data[i].dependency = 0
    /\ \E i, j \in DependencyServiceIndexes :
          compiler.services_data[i].dependency # compiler.services_data[j].dependency

SecondRunDone == compiler.pc = "done" /\ compiler.run = 2

\* C22: compiling the same topology twice against the same registry, at any
\* two times, gives the same content for hosts.cfg, services.cfg,
\* contacts.cfg, commands.cfg and nagios.cfg.
C22_Determinism ==
    SecondRunDone => \A name \in FileNames : compiler.files[name] = compiler.previous[name]

\* The four object files of the two runs are the same.
ObjectFilesDeterministic ==
    SecondRunDone =>
        \A name \in FileNames \ {"nagios.cfg"} :
            compiler.files[name] = compiler.previous[name]

SentOps == {deploy.log[i].op : i \in DOMAIN deploy.log}
SentCommands == {deploy.log[i].arg : i \in DOMAIN deploy.log}
Restarted == "sudo systemctl restart nagios" \in SentCommands

\* C23: in dry-run mode (set in config.yml or with --dry-run) the Nagios
\* path of deploy_all copies no configuration file to the server, changes
\* no remote permission or ownership, and restarts no service.
C23_DryRunChangesNothing ==
    (deploy.pc # "main" /\ deploy.config.dry_run) =>
        /\ SentOps \cap {"put", "chmod 644", "chown nagios:nagios"} = {}
        /\ ~Restarted

\* In dry-run mode no service is restarted.
DryRunRestartsNothing == (deploy.pc # "main" /\ deploy.config.dry_run) => ~Restarted

\* The position in the log of the configuration check.
Checks == {i \in DOMAIN deploy.log : deploy.log[i].arg = "nagios -v /etc/nagios/nagios.cfg"}

\* C27: the restart is sent only after the configuration check returned
\* success on the same connection; when the check fails deploy_nagios
\* fails and nothing is restarted; and once deploy_all has returned, the
\* connection that was opened is closed.
C27_RestartOnlyAfterValidation ==
    /\ \A i \in DOMAIN deploy.log :
          deploy.log[i].arg = "sudo systemctl restart nagios" =>
              /\ deploy.ssh = "open" \/ deploy.pc \in {"elastic", "returned"}
              /\ \E j \in Checks : j < i /\ deploy.log[j].exit = 0
    /\ (\E j \in Checks : deploy.log[j].exit # 0) =>
          /\ ~Restarted
          /\ ~deploy.success
          /\ deploy.ret # "true"
          /\ deploy.pc \in {"elastic", "returned"}
    /\ deploy.pc \in {"elastic", "returned"} => deploy.ssh # "open"
    /\ deploy.pc \in {"backup", "copy", "validate", "restart", "verify"} => deploy.ssh = "open"

\* A run that restarted the service and returned, and the same state has
\* the connection closed.
C27_Witness ==
    /\ deploy.pc = "returned"
    /\ Restarted
    /\ deploy.ssh = "closed"
    /\ "put" \in SentOps

\* A run whose configuration check failed.
C27_WitnessFailed ==
    /\ deploy.pc = "returned"
    /\ \E j \in Checks : deploy.log[j].exit # 0
    /\ "put" \in SentOps

\* validate_nagios_configs of validate_configs.py: the files it requires.
RequiredFiles == {"hosts.cfg", "services.cfg", "contacts.cfg", "commands.cfg"}

\* C24: whenever generate_monitoring_configs returns True with Nagios
\* generation selected, nagios/hosts.cfg, services.cfg, contacts.cfg and
\* commands.cfg exist in the execution directory; a failure inside the
\* Nagios generator makes it return False.
C24_SuccessMeansArtifactsExist ==
    [][ /\ compiler'.result = "true" => RequiredFiles \subseteq DOMAIN compiler'.files
        /\ compiler.pc = "raised" => compiler'.result = "false" ]_vars

\* When the Nagios generator ran to its end, the four files exist.
GeneratedMeansArtifactsExist ==
    (compiler.pc = "returned" /\ compiler.result = "true" /\ compiler.files # NoFiles)
       => RequiredFiles \subseteq DOMAIN compiler.files

DefaultConfiguration ==
    cfg.validate_syntax /\ cfg.create_backups /\ cfg.notifications_enabled
\* The artifacts are accepted by `nagios -v` and nothing failed on the
\* transport or timed out.
CleanEnvironment ==
    /\ nagios_installed
    /\ faults = 0
    /\ hist.syntax # "rc_nonzero"
    /\ ~hist.transport_failed
StagedOnce(n) ==
    Cardinality({i \in 1 .. Len(staged_files) :
                    /\ staged_files[i].filename = n
                    /\ staged_files[i].session = import_session_id}) = 1
ImportReturned == pc = "idle" /\ ret.op = "import_configurations"

\* C25: with the default configuration, when the artifacts pass the syntax
\* check and the remote host stays reachable, import_configurations returns
\* True having staged every artifact of the input exactly once, conflicts or
\* not.
C25_SessionProgress ==
    (ImportReturned /\ DefaultConfiguration /\ CleanEnvironment) =>
        /\ ret.value = TRUE
        /\ \A n \in SeqNames(config_files) : StagedOnce(n) /\ ImportWritten(n)

\* validation is enabled, the tool is missing, and _validate_nagios_syntax
\* has run without any other failure.
ToolMissing ==
    /\ cfg.validate_syntax
    /\ ~nagios_installed
    /\ hist.syntax \notin {"none", "error"}

\* C26: when the syntax-checking tool is not installed on the controlling
\* host, validation counts as passed: the session goes on to the idempotency
\* check and to staging, and does not fail at validation.
C26_MissingToolSkipsValidation ==
    ToolMissing =>
        /\ hist.syntax = "not_found"
        /\ ~Has("validation_failed")
        /\ pc \in {"check", "stage", "copy", "instructions", "notify"}
           \/ Has("staged") \/ Has("staging_failed")

\* The same, for an adapter module in which the name `os` resolves.
MissingToolSkipsValidationWhenOsResolves == os_bound => C26_MissingToolSkipsValidation

\* C28: within one compilation two distinct (environment name, host
\* identifier) pairs never receive the same host id, so the host_name values
\* of hosts.cfg are pairwise distinct whenever the pairs are.
C28_HostIdsUnique ==
    HostsCompiled =>
        \A i, j \in DOMAIN compiler.hosts_data :
            HostKeys[i] # HostKeys[j] =>
                compiler.hosts_data[i].host_name # compiler.hosts_data[j].host_name

\* The contact_name of the contact blocks of contacts.cfg.
DefinedContacts == {compiler.contacts_config[c].contact_name : c \in Contacts}
\* The host_name of the host blocks of hosts.cfg.
DefinedHosts == {compiler.hosts_data[i].host_name : i \in DOMAIN compiler.hosts_data}

\* C29: every name in the member list of the contact group is the
\* contact_name of a contact block of the same contacts.cfg, and the
\* host_name of every dependency service is the host_name of a host of
\* hosts.cfg.
C29_ReferentialIntegrity ==
    /\ ContactsCompiled =>
          \A g \in ContactGroups :
              \A m \in DOMAIN compiler.contacts_config[g].members :
                  compiler.contacts_config[g].members[m] \in DefinedContacts
    /\ compiler.pc \in {"save", "done"} =>
          \A i \in DependencyServiceIndexes :
              compiler.services_data[i].host_name \in DefinedHosts

\* Every dependency service names a host of hosts.cfg.
ServicesNameDefinedHosts ==
    compiler.pc \in {"save", "done"} =>
        \A i \in DependencyServiceIndexes :
            compiler.services_data[i].host_name \in DefinedHosts

\* The directives of an emitted block, as key/value pairs.
Pairs(block) ==
    LET directives == {i \in DOMAIN block : block[i].sep # ""}
    IN [key \in {block[i].key : i \in directives} |->
           block[CHOOSE i \in directives : block[i].key = key].value]
EmittedContacts ==
    SelectSeq(compiler.contacts_config, LAMBDA block : block.define = "contact")

\* C30: parsing the hosts.cfg (services.cfg, contacts.cfg) text of the
\* compiler with _parse_nagios_config_blocks gives exactly one object per
\* compiled host (service, contact), in the same order, with the key/value
\* pairs of the emitted block.
C30_ParserRoundTrip ==
    compiler.pc = "parsed" =>
        /\ compiler.parsed["hosts.cfg"]
             = [i \in DOMAIN compiler.hosts_data |-> Pairs(RenderHost(compiler.hosts_data[i]))]
        /\ compiler.parsed["services.cfg"]
             = [i \in DOMAIN compiler.services_data |->
                   Pairs(RenderService(compiler.services_data[i]))]
        /\ compiler.parsed["contacts.cfg"]
             = [i \in DOMAIN EmittedContacts |-> Pairs(RenderContact(EmittedContacts[i]))]

\* A text with every run of spaces between a directive and its value
\* replaced by a tab.
WithTabs(text) ==
    [i \in DOMAIN text |-> IF text[i].sep = Spaces /\ text[i].key # "#"
                           THEN [text[i] EXCEPT !.sep = Tab] ELSE text[i]]

\* The parser does read the blocks of a text whose directives are separated
\* from their values by a tab.
TabSeparatedTextRoundTrips ==
    compiler.pc = "parsed" =>
        /\ ParseNagiosConfigBlocks(WithTabs(compiler.files["hosts.cfg"]), "define host")
             = [i \in DOMAIN compiler.hosts_data |-> Pairs(RenderHost(compiler.hosts_data[i]))]
        /\ ParseNagiosConfigBlocks(WithTabs(compiler.files["contacts.cfg"]), "define contact")
             = [i \in DOMAIN EmittedContacts |-> Pairs(RenderContact(EmittedContacts[i]))]

====
